---- MODULE Spec2Model ----
(***************************************************************************)
(* ALICE-VCS: a model of the AST tree, the diff engine and patch           *)
(* application, the varint patch codec, the three-way merge, the snapshot  *)
(* store and its mark-sweep garbage collector.                             *)
(*                                                                         *)
(* Representation.  Vec<T> is a sequence; a HashMap is a function whose    *)
(* DOMAIN is its key set; Option is modelled by a membership test on that  *)
(* DOMAIN.  Positions in `nodes` are 1-based here and 0-based in the code. *)
(* Strings are sequences of UTF-8 bytes.  Machine words that cross the     *)
(* wire (u32, usize, i64, the bits of an f64) are little-endian sequences  *)
(* of 16-bit limbs, a u64 hash is a little-endian sequence of 8 bytes, so  *)
(* that widths, truncation and wrap-around are those of the code.          *)
(***************************************************************************)
EXTENDS Integers, Sequences, FiniteSets, TLC

VARIABLES
    tree,           \* ast.rs AstTree under construction / mutation, or patched
    issued,         \* history: what each add_node call returned and created
    before,         \* the tree as it was when apply_patch was called
    patch,          \* the edit script handed to apply_patch / built by diff_trees
    old_tree,       \* diff_trees: the tree diffed from; the ancestor of a merge
    new_tree,       \* diff_trees: the tree diffed to; side A of a merge
    other_tree,     \* side B of a merge
    patch_a,        \* merge_patches: the script of side A
    patch_b,        \* merge_patches: the script of side B
    merge_result,   \* merge.rs MergeResult
    wire,           \* codec: the edit script to encode
    buf,            \* codec: the encoded bytes
    decoded,        \* codec: what decode_patch returned
    store,          \* store.rs SnapshotStore.snapshots
    store_before,   \* the store as it was when the collector was called
    roots,          \* gc: the root hashes handed to the collector
    stored,         \* history: the hashes the store calls returned
    gc_result,      \* gc.rs GcResult
    gc_first,       \* history: the store and the result of an earlier collection
    store_calls,    \* history: the calls of SnapshotStore::store made
    marking,        \* gc.rs mark: reachable, queue, and the pushes made so far
    repo,           \* commit.rs Repository
    pc              \* position of the driver of the current specification

treeVars == <<tree, issued>>
applyVars == <<before, patch>>
diffVars == <<old_tree, new_tree, other_tree>>
mergeVars == <<patch_a, patch_b, merge_result>>
codecVars == <<wire, buf, decoded>>
gcVars ==
    <<store, stored, store_before, roots, gc_result, gc_first, store_calls,
      marking>>
repoVars == <<repo>>
vars ==
    <<treeVars, applyVars, diffVars, mergeVars, codecVars, gcVars, repoVars,
      pc>>

(***************************************************************************)
(* Bounds of the model.                                                    *)
(***************************************************************************)
\* ids a tree may issue: add_node is not called once next_id exceeds this
MaxNextId == 3
\* the same, for the tree that single-op patches are applied to
ApplyMaxId == 2
\* the same, for each tree of a diffed pair
PairMaxId == 2

(***************************************************************************)
(* Generic helpers on sequences.                                           *)
(***************************************************************************)
Range(s) == {s[i] : i \in 1..Len(s)}

RECURSIVE Concat(_)
\* flattening of a sequence of sequences, in order
Concat(ss) ==
    IF ss = <<>> THEN <<>> ELSE Head(ss) \o Concat(Tail(ss))

\* Vec::retain(|&c| c != x)
Retain(s, x) == SelectSeq(s, LAMBDA c : c # x)

(***************************************************************************)
(* ast.rs: node kinds, node values, nodes.                                 *)
(***************************************************************************)
AstNodeKind ==
    {"Root", "CsgOp", "Primitive", "Transform", "Parameter", "Group",
     "Material", "Keyframe", "Custom"}

\* `kind as u8`: the #[repr(u8)] discriminant
KindByte(kind) ==
    CASE kind = "Root" -> 0
      [] kind = "CsgOp" -> 1
      [] kind = "Primitive" -> 2
      [] kind = "Transform" -> 3
      [] kind = "Parameter" -> 4
      [] kind = "Group" -> 5
      [] kind = "Material" -> 6
      [] kind = "Keyframe" -> 7
      [] kind = "Custom" -> 255

\* AstNodeKind::from_u8
from_u8(v) ==
    CASE v = 0 -> "Root"
      [] v = 1 -> "CsgOp"
      [] v = 2 -> "Primitive"
      [] v = 3 -> "Transform"
      [] v = 4 -> "Parameter"
      [] v = 5 -> "Group"
      [] v = 6 -> "Material"
      [] v = 7 -> "Keyframe"
      [] OTHER -> "Custom"

\* NodeValue variants.  Int carries the i64 and Float the bits of the f64 as
\* four 16-bit limbs, least significant first; Text, Ident and Bytes carry bytes.
ValNone == [tag |-> "None"]
ValInt(w) == [tag |-> "Int", w |-> w]
ValFloat(w) == [tag |-> "Float", w |-> w]
ValText(s) == [tag |-> "Text", s |-> s]
ValIdent(s) == [tag |-> "Ident", s |-> s]
ValBytes(s) == [tag |-> "Bytes", s |-> s]

\* an f64 is NaN when its exponent bits are all ones and its mantissa is not zero
IsNaN(w) ==
    /\ (w[4] % 32768) \div 16 = 2047
    /\ (w[4] % 16 # 0 \/ w[3] # 0 \/ w[2] # 0 \/ w[1] # 0)

\* +0.0 or -0.0
IsZeroF64(w) == w[1] = 0 /\ w[2] = 0 /\ w[3] = 0 /\ w[4] % 32768 = 0

\* f64 == (IEEE-754): NaN equals nothing, the two zeros are equal
F64Eq(a, b) ==
    /\ ~IsNaN(a)
    /\ ~IsNaN(b)
    /\ (a = b \/ (IsZeroF64(a) /\ IsZeroF64(b)))

\* a faulty equality: only None equals None
ValueEq_none_only(a, b) == a.tag = "None" /\ b.tag = "None"

\* #[derive(PartialEq)] on NodeValue
ValueEq(a, b) ==
    /\ a.tag = b.tag
    /\ CASE a.tag = "None" -> TRUE
         [] a.tag = "Int" -> a.w = b.w
         [] a.tag = "Float" -> F64Eq(a.w, b.w)
         [] OTHER -> a.s = b.s

\* AstNode::new
AstNode_new(id, kind, label) ==
    [id |-> id, kind |-> kind, label |-> label, value |-> ValNone,
     children |-> <<>>]

\* the bytes of "root"
RootLabel == <<114, 111, 111, 116>>

(***************************************************************************)
(* ast.rs: AstTree.                                                        *)
(***************************************************************************)
\* AstTree::new
AstTree_new ==
    [nodes |-> <<AstNode_new(0, "Root", RootLabel)>>,
     index |-> (0 :> 1),
     parent_index |-> <<>>,
     root_id |-> 0,
     next_id |-> 1]

\* get_node(id).is_some()
has_node(t, id) == id \in DOMAIN t.index

\* get_node(id), where it is present
get_node(t, id) == t.nodes[t.index[id]]

\* parent_of(id).is_some()
has_parent(t, id) == id \in DOMAIN t.parent_index

\* parent_of(id), where it is present
parent_of(t, id) == t.parent_index[id]

\* node_count
node_count(t) == Len(t.nodes)

\* HashMap::insert on a map kept as a function
MapInsert(m, k, v) == [x \in DOMAIN m \cup {k} |-> IF x = k THEN v ELSE m[x]]

\* HashMap::remove of a set of keys
MapRemove(m, ks) == [x \in DOMAIN m \ ks |-> m[x]]

\* a faulty add_node: the id is taken from the node count, so that it is
\* handed out again after a removal
add_node_reusing(t, kind, label, parent_id) ==
    LET id == Len(t.nodes)
        idx == Len(t.nodes) + 1
        nodes1 == Append(t.nodes, AstNode_new(id, kind, label))
        index1 == MapInsert(t.index, id, idx)
    IN  [t EXCEPT
            !.next_id = id + 1,
            !.nodes = IF parent_id \in DOMAIN index1
                      THEN [nodes1 EXCEPT ![index1[parent_id]].children =
                                Append(@, id)]
                      ELSE nodes1,
            !.index = index1,
            !.parent_index = MapInsert(t.parent_index, id, parent_id)]

\* AstTree::add_node: the tree after the call; the id returned is t.next_id.
\* The parent is looked up after the new node is installed in the index.
add_node(t, kind, label, parent_id) ==
    LET id == t.next_id
        idx == Len(t.nodes) + 1
        nodes1 == Append(t.nodes, AstNode_new(id, kind, label))
        index1 == MapInsert(t.index, id, idx)
    IN  [t EXCEPT
            !.next_id = id + 1,
            !.nodes = IF parent_id \in DOMAIN index1
                      THEN [nodes1 EXCEPT ![index1[parent_id]].children =
                                Append(@, id)]
                      ELSE nodes1,
            !.index = index1,
            !.parent_index = MapInsert(t.parent_index, id, parent_id)]

\* AstTree::add_node_with_value
add_node_with_value(t, kind, label, value, parent_id) ==
    LET id == t.next_id
        t1 == add_node(t, kind, label, parent_id)
    IN  IF has_node(t1, id)
        THEN [t1 EXCEPT !.nodes[t1.index[id]].value = value]
        ELSE t1

RECURSIVE collect_subtree(_, _)
\* AstTree::collect_subtree: the ids pushed, in pre-order
collect_subtree(t, id) ==
    <<id>> \o
    (IF has_node(t, id)
     THEN LET cs == get_node(t, id).children
          IN  Concat([i \in 1..Len(cs) |-> collect_subtree(t, cs[i])])
     ELSE <<>>)

\* the index rebuilt from the node vector (the loop that ends remove_subtree)
rebuild_index(nodes) ==
    [id \in {nodes[i].id : i \in 1..Len(nodes)} |->
        CHOOSE i \in 1..Len(nodes) :
            /\ nodes[i].id = id
            /\ \A j \in (i + 1)..Len(nodes) : nodes[j].id # id]

\* a faulty remove_subtree: the node is left in its parent's children
remove_subtree_not_detaching(t, id) ==
    LET to_remove == Range(collect_subtree(t, id))
        nodes2 == SelectSeq(t.nodes, LAMBDA n : n.id \notin to_remove)
    IN  [t EXCEPT
            !.nodes = nodes2,
            !.parent_index = MapRemove(t.parent_index, to_remove),
            !.index = rebuild_index(nodes2)]

\* AstTree::remove_subtree
remove_subtree(t, id) ==
    LET to_remove == Range(collect_subtree(t, id))
        nodes1 ==
            IF has_parent(t, id) /\ has_node(t, parent_of(t, id))
            THEN [t.nodes EXCEPT ![t.index[parent_of(t, id)]].children =
                      Retain(@, id)]
            ELSE t.nodes
        nodes2 == SelectSeq(nodes1, LAMBDA n : n.id \notin to_remove)
    IN  [t EXCEPT
            !.nodes = nodes2,
            !.parent_index = MapRemove(t.parent_index, to_remove),
            !.index = rebuild_index(nodes2)]

(***************************************************************************)
(* ast.rs: the subtree Merkle hash (FNV-1a, 64 bit).  A hash is kept as    *)
(* its 8 bytes, least significant first.                                   *)
(***************************************************************************)
\* 0xcbf29ce484222325
FnvOffsetBasis == <<37, 35, 34, 132, 228, 156, 242, 203>>

RECURSIVE XorBits(_, _, _)
\* a ^ b on the low n bits
XorBits(a, b, n) ==
    IF n = 0 THEN 0
    ELSE ((a + b) % 2) + 2 * XorBits(a \div 2, b \div 2, n - 1)

\* *h ^= b as u64, for a byte b: only the low byte of h changes
XorLowByte(h, b) == [h EXCEPT ![1] = XorBits(@, b, 8)]

RECURSIVE MulPrimeFrom(_, _, _)
\* bytes i..8 of h * 0x100000001b3 = h * 435 + h * 2^40, given the carry into
\* byte i; the carry out of byte 8 is dropped (wrapping_mul)
MulPrimeFrom(h, i, carry) ==
    IF i > 8 THEN <<>>
    ELSE LET t == h[i] * 435 + (IF i > 5 THEN h[i - 5] ELSE 0) + carry
         IN  <<t % 256>> \o MulPrimeFrom(h, i + 1, t \div 256)

\* h.wrapping_mul(0x100000001b3)
wrapping_mul_prime(h) == MulPrimeFrom(h, 1, 0)

RECURSIVE hash_bytes(_, _)
\* the loop over label.as_bytes()
hash_bytes(h, bs) ==
    IF bs = <<>> THEN h
    ELSE hash_bytes(wrapping_mul_prime(XorLowByte(h, Head(bs))), Tail(bs))

RECURSIVE hash_node(_, _, _)
RECURSIVE hash_children(_, _, _)
\* a faulty hash_node that folds in whether the node holds a value
hash_node_with_value(t, id, h) ==
    IF has_node(t, id)
    THEN hash_children(
             t, get_node(t, id).children,
             hash_bytes(
                 wrapping_mul_prime(
                     XorLowByte(h, KindByte(get_node(t, id).kind))),
                 get_node(t, id).label
                     \o (IF get_node(t, id).value.tag = "None" THEN <<>>
                         ELSE <<1>>)))
    ELSE h

\* the loop over node.children in hash_node
hash_children(t, cs, h) ==
    IF cs = <<>> THEN h
    ELSE hash_children(t, Tail(cs), hash_node(t, Head(cs), h))

\* AstTree::hash_node: h after folding in the subtree of id
hash_node(t, id, h) ==
    IF has_node(t, id)
    THEN LET node == get_node(t, id)
             h1 == wrapping_mul_prime(XorLowByte(h, KindByte(node.kind)))
         IN  hash_children(t, node.children, hash_bytes(h1, node.label))
    ELSE h

\* AstTree::subtree_hash
subtree_hash(t, id) == hash_node(t, id, FnvOffsetBasis)

(***************************************************************************)
(* diff.rs: DiffOp, diff_trees, apply_patch.                               *)
(***************************************************************************)
OpInsert(parent_id, index, kind, label, value) ==
    [op |-> "Insert", parent_id |-> parent_id, index |-> index, kind |-> kind,
     label |-> label, value |-> value]
OpDelete(node_id) == [op |-> "Delete", node_id |-> node_id]
OpUpdate(node_id, old_value, new_value) ==
    [op |-> "Update", node_id |-> node_id, old_value |-> old_value,
     new_value |-> new_value]
OpRelabel(node_id, old_label, new_label) ==
    [op |-> "Relabel", node_id |-> node_id, old_label |-> old_label,
     new_label |-> new_label]
OpMove(node_id, new_parent_id, new_index) ==
    [op |-> "Move", node_id |-> node_id, new_parent_id |-> new_parent_id,
     new_index |-> new_index]

\* merge.rs op_target_node
op_target_node(op) ==
    IF op.op = "Insert" THEN op.parent_id ELSE op.node_id

\* the matching key of a child: (kind, label)
child_key(t, id) == <<get_node(t, id).kind, get_node(t, id).label>>

RECURSIVE match_children_last(_, _, _, _, _, _)
\* a faulty first pass: an old child takes the last new child of its key
\* that is not matched yet
match_children_last(old, new, old_children, new_children, oi, matched_new) ==
    IF oi > Len(old_children) THEN <<>>
    ELSE LET candidates ==
                 IF has_node(old, old_children[oi])
                 THEN {ni \in 1..Len(new_children) :
                          /\ has_node(new, new_children[ni])
                          /\ child_key(new, new_children[ni]) =
                                 child_key(old, old_children[oi])
                          /\ ni \notin matched_new}
                 ELSE {}
         IN  IF candidates = {}
             THEN match_children_last(old, new, old_children, new_children,
                                      oi + 1, matched_new)
             ELSE LET ni == CHOOSE x \in candidates :
                                \A y \in candidates : x >= y
                  IN  <<<<oi, ni>>>> \o
                      match_children_last(old, new, old_children,
                                          new_children, oi + 1,
                                          matched_new \cup {ni})

RECURSIVE match_children(_, _, _, _, _, _)
\* the first pass of diff_subtree from old child oi on: the pairs <<oi, ni>>
\* matched, in the order of the old children.  An old child takes the first
\* new child of its key that is not matched yet.
match_children(old, new, old_children, new_children, oi, matched_new) ==
    IF oi > Len(old_children) THEN <<>>
    ELSE LET candidates ==
                 IF has_node(old, old_children[oi])
                 THEN {ni \in 1..Len(new_children) :
                          /\ has_node(new, new_children[ni])
                          /\ child_key(new, new_children[ni]) =
                                 child_key(old, old_children[oi])
                          /\ ni \notin matched_new}
                 ELSE {}
         IN  IF candidates = {}
             THEN match_children(old, new, old_children, new_children,
                                 oi + 1, matched_new)
             ELSE LET ni == CHOOSE x \in candidates :
                                \A y \in candidates : x <= y
                  IN  <<<<oi, ni>>>> \o
                      match_children(old, new, old_children, new_children,
                                     oi + 1, matched_new \cup {ni})

RECURSIVE diff_subtree_new_ids(_, _, _, _)
\* a faulty diff_subtree: an Insert names as parent the id that the parent has
\* in the new tree, and a Delete comes before the ops on the matched children
diff_subtree_new_ids(old, new, old_id, new_id) ==
    IF ~has_node(old, old_id) \/ ~has_node(new, new_id) THEN <<>>
    ELSE
    LET old_children == get_node(old, old_id).children
        new_children == get_node(new, new_id).children
        pairs == match_children(old, new, old_children, new_children, 1, {})
    IN  (IF ~ValueEq(get_node(old, old_id).value, get_node(new, new_id).value)
         THEN <<OpUpdate(old_id, get_node(old, old_id).value,
                         get_node(new, new_id).value)>>
         ELSE <<>>)
        \o Concat([oi \in 1..Len(old_children) |->
               IF oi \notin {pairs[k][1] : k \in 1..Len(pairs)}
               THEN <<OpDelete(old_children[oi])>> ELSE <<>>])
        \o Concat([k \in 1..Len(pairs) |->
               diff_subtree_new_ids(old, new, old_children[pairs[k][1]],
                                    new_children[pairs[k][2]])])
        \o Concat([ni \in 1..Len(new_children) |->
               IF ni \notin {pairs[k][2] : k \in 1..Len(pairs)}
               THEN <<OpInsert(new_children[ni], ni - 1,
                               get_node(new, new_children[ni]).kind,
                               get_node(new, new_children[ni]).label,
                               get_node(new, new_children[ni]).value)>>
               ELSE <<>>])

RECURSIVE diff_subtree(_, _, _, _)
\* diff.rs diff_subtree: the ops pushed for the pair (old_id, new_id)
diff_subtree(old, new, old_id, new_id) ==
    IF ~has_node(old, old_id) \/ ~has_node(new, new_id) THEN <<>>
    ELSE
    LET old_node == get_node(old, old_id)
        new_node == get_node(new, new_id)
        old_children == old_node.children
        new_children == new_node.children
        pairs == match_children(old, new, old_children, new_children, 1, {})
        matched_old == {pairs[k][1] : k \in 1..Len(pairs)}
        matched_new == {pairs[k][2] : k \in 1..Len(pairs)}
        relabel ==
            IF old_node.label # new_node.label
            THEN <<OpRelabel(old_id, old_node.label, new_node.label)>>
            ELSE <<>>
        update ==
            IF ~ValueEq(old_node.value, new_node.value)
            THEN <<OpUpdate(old_id, old_node.value, new_node.value)>>
            ELSE <<>>
        recursed ==
            Concat([k \in 1..Len(pairs) |->
                diff_subtree(old, new, old_children[pairs[k][1]],
                             new_children[pairs[k][2]])])
        deleted ==
            Concat([oi \in 1..Len(old_children) |->
                IF oi \notin matched_old
                THEN <<OpDelete(old_children[oi])>> ELSE <<>>])
        inserted ==
            Concat([ni \in 1..Len(new_children) |->
                IF ni \notin matched_new /\ has_node(new, new_children[ni])
                THEN LET new_child == get_node(new, new_children[ni])
                     IN  <<OpInsert(old_id, ni - 1, new_child.kind,
                                    new_child.label, new_child.value)>>
                ELSE <<>>])
    IN  relabel \o update \o recursed \o deleted \o inserted

\* diff.rs diff_trees
diff_trees(old, new) == diff_subtree(old, new, old.root_id, new.root_id)

\* the Move arm of apply_patch
apply_move(t, op) ==
    LET nodes1 ==
            IF has_parent(t, op.node_id) /\ has_node(t, parent_of(t, op.node_id))
            THEN [t.nodes EXCEPT
                     ![t.index[parent_of(t, op.node_id)]].children =
                         Retain(@, op.node_id)]
            ELSE t.nodes
        nodes2 ==
            IF has_node(t, op.new_parent_id)
            THEN [nodes1 EXCEPT ![t.index[op.new_parent_id]].children =
                     Append(@, op.node_id)]
            ELSE nodes1
    IN  [t EXCEPT !.nodes = nodes2]

\* a faulty iteration: an Insert adds the node and records no parent for it
apply_op_unparented(t, op) ==
    CASE op.op = "Insert" ->
            [add_node_with_value(t, op.kind, op.label, op.value,
                                 op.parent_id)
                EXCEPT !.parent_index = t.parent_index]
      [] op.op = "Delete" -> remove_subtree(t, op.node_id)
      [] op.op = "Update" ->
            IF has_node(t, op.node_id)
            THEN [t EXCEPT !.nodes[t.index[op.node_id]].value = op.new_value]
            ELSE t
      [] op.op = "Relabel" ->
            IF has_node(t, op.node_id)
            THEN [t EXCEPT !.nodes[t.index[op.node_id]].label = op.new_label]
            ELSE t
      [] op.op = "Move" -> apply_move(t, op)

\* one iteration of the loop of apply_patch
apply_op(t, op) ==
    CASE op.op = "Insert" ->
            add_node_with_value(t, op.kind, op.label, op.value, op.parent_id)
      [] op.op = "Delete" -> remove_subtree(t, op.node_id)
      [] op.op = "Update" ->
            IF has_node(t, op.node_id)
            THEN [t EXCEPT !.nodes[t.index[op.node_id]].value = op.new_value]
            ELSE t
      [] op.op = "Relabel" ->
            IF has_node(t, op.node_id)
            THEN [t EXCEPT !.nodes[t.index[op.node_id]].label = op.new_label]
            ELSE t
      [] op.op = "Move" -> apply_move(t, op)

RECURSIVE apply_patch(_, _)
\* diff.rs apply_patch
apply_patch(t, ops) ==
    IF ops = <<>> THEN t
    ELSE apply_patch(apply_op(t, Head(ops)), Tail(ops))

(***************************************************************************)
(* Inputs of the tree operations.                                          *)
(***************************************************************************)
LabelA == <<97>>
LabelB == <<98>>
Labels == {LabelA, LabelB}
Kinds == {"Primitive", "Group"}
\* Int(1), Float(1.0), Float(NaN)
Int1 == ValInt(<<1, 0, 0, 0>>)
Float1 == ValFloat(<<0, 0, 0, 16368>>)
FloatNaN == ValFloat(<<0, 0, 0, 32760>>)
Values == {ValNone, Int1}
\* ids a caller may name: those the tree can hold, and one it never holds
Ids == 0..(MaxNextId + 1)

(***************************************************************************)
(* Spec: a tree driven by add_node, add_node_with_value and                *)
(* remove_subtree.  Callers of add_node supply an existing parent.         *)
(***************************************************************************)
\* the id add_node returned (that of the node it pushed), what the caller
\* asked for, and the node count when it was called
Issue(t, t1, kind, label, value) ==
    [id |-> t1.nodes[Len(t1.nodes)].id, kind |-> kind, label |-> label,
     value |-> value, count |-> node_count(t)]

\* the parts of the state a specification does not use stay as they start
IdleTree == tree = AstTree_new /\ issued = <<>>
IdleApply == before = AstTree_new /\ patch = <<>>
IdleDiff ==
    /\ old_tree = AstTree_new
    /\ new_tree = AstTree_new
    /\ other_tree = AstTree_new
IdleMerge ==
    /\ patch_a = <<>>
    /\ patch_b = <<>>
    /\ merge_result = [merged_ops |-> <<>>, conflicts |-> <<>>]
IdleCodec == wire = <<>> /\ buf = <<>> /\ decoded = [some |-> FALSE]
IdleGc ==
    /\ store = <<>>
    /\ stored = <<>>
    /\ store_before = <<>>
    /\ roots = <<>>
    /\ gc_result = [retained |-> 0, collected |-> 0, total_before |-> 0]
    /\ gc_first = <<>>
    /\ store_calls = <<>>
    /\ marking = [reachable |-> {}, queue |-> <<>>, pushed |-> <<>>]

IdleRepo == repo = <<>>

Init ==
    /\ IdleTree
    /\ IdleApply
    /\ IdleDiff
    /\ IdleMerge
    /\ IdleCodec
    /\ IdleGc
    /\ IdleRepo
    /\ pc = "tree"

AddNode ==
    \E kind \in Kinds, label \in Labels, parent_id \in Ids :
        /\ pc = "tree"
        /\ tree.next_id <= MaxNextId
        /\ has_node(tree, parent_id)
        /\ tree' = add_node(tree, kind, label, parent_id)
        /\ issued' = Append(issued, Issue(tree, tree', kind, label, ValNone))
        /\ UNCHANGED <<applyVars, diffVars, mergeVars, codecVars, gcVars,
                       repoVars, pc>>

AddNodeWithValue ==
    \E kind \in Kinds, label \in Labels, value \in Values \ {ValNone},
       parent_id \in Ids :
        /\ pc = "tree"
        /\ tree.next_id <= MaxNextId
        /\ has_node(tree, parent_id)
        /\ tree' = add_node_with_value(tree, kind, label, value, parent_id)
        /\ issued' = Append(issued, Issue(tree, tree', kind, label, value))
        /\ UNCHANGED <<applyVars, diffVars, mergeVars, codecVars, gcVars,
                       repoVars, pc>>

RemoveSubtree ==
    \E id \in Ids :
        /\ pc = "tree"
        /\ tree' = remove_subtree(tree, id)
        /\ UNCHANGED <<issued, applyVars, diffVars, mergeVars, codecVars,
                       gcVars, repoVars, pc>>

Next == AddNode \/ AddNodeWithValue \/ RemoveSubtree

Spec == Init /\ [][Next]_vars

(***************************************************************************)
(* Tree invariants (claims C5, C6, C7), checked under Spec.                *)
(***************************************************************************)
\* how often x occurs in the sequence s
Count(s, x) == Cardinality({i \in 1..Len(s) : s[i] = x})

\* I2: the node index, the stored nodes and the children lists agree
I2(t) ==
    /\ DOMAIN t.index = {t.nodes[i].id : i \in 1..Len(t.nodes)}
    /\ \A id \in DOMAIN t.index :
           /\ t.index[id] \in 1..Len(t.nodes)
           /\ t.nodes[t.index[id]].id = id
    /\ \A i \in 1..Len(t.nodes) :
           \A c \in Range(t.nodes[i].children) : c \in DOMAIN t.index

\* I3: every non-root node has a parent, which lists it exactly once
I3(t) ==
    \A id \in DOMAIN t.index \ {t.root_id} :
        /\ has_parent(t, id)
        /\ has_node(t, parent_of(t, id))
        /\ Count(get_node(t, parent_of(t, id)).children, id) = 1

\* C5: after any sequence of add_node / add_node_with_value (with an existing
\* parent) and remove_subtree calls the indices agree: the ids of the index
\* are the ids of the stored nodes, nodes[index[id]].id = id, every child id
\* is indexed, and every non-root id has a parent that lists it exactly once.
C5_IndicesAgree == I2(tree) /\ I3(tree)

\* C5 witness: a subtree with a child was removed and other nodes survive
C5_Witness ==
    /\ Len(issued) = 3
    /\ node_count(tree) = 2
    /\ has_node(tree, 0)
    /\ \E i \in 1..Len(issued) : has_node(tree, issued[i].id)

\* C6: exactly one node has id 0 and kind Root after any sequence of
\* add_node, add_node_with_value and remove_subtree calls, whatever id
\* remove_subtree is given: get_node(0) is always present.
C6_RootAlwaysPresent ==
    /\ has_node(tree, 0)
    /\ get_node(tree, 0).kind = "Root"
    /\ Cardinality({i \in 1..Len(tree.nodes) : tree.nodes[i].id = 0}) = 1

\* C7: node ids are never reused: the id each add returns exceeds every id
\* issued before it (removed ones included), and a surviving node keeps the
\* id, kind, label and value it was created with (no renumbering).
C7_IdsNeverReused ==
    /\ \A i, j \in 1..Len(issued) : i < j => issued[i].id < issued[j].id
    /\ \A i \in 1..Len(issued) : issued[i].id > 0 /\ issued[i].id < tree.next_id
    /\ \A k \in 1..Len(tree.nodes) :
           LET n == tree.nodes[k]
           IN  n.id # 0 =>
                   \E i \in 1..Len(issued) :
                       /\ issued[i].id = n.id
                       /\ issued[i].kind = n.kind
                       /\ issued[i].label = n.label
                       /\ issued[i].value = n.value

\* C7 witness: an add made after a removal (fewer nodes than ids issued)
\* whose node is live, while an earlier id is gone
C7_Witness ==
    \E i, j \in 1..Len(issued) :
        /\ i < j
        /\ ~has_node(tree, issued[i].id)
        /\ issued[j].count < issued[j].id
        /\ has_node(tree, issued[j].id)

(***************************************************************************)
(* SpecApply: a tree is built by add_node_with_value and remove_subtree,   *)
(* then apply_patch is called once with a one-op script.                   *)
(***************************************************************************)
ApplyIds == 0..(ApplyMaxId + 1)

\* the ops a caller may put in a script, over the ids of ApplyIds
ApplyOps ==
    {OpInsert(p, 0, k, l, v) :
        p \in ApplyIds, k \in Kinds, l \in Labels, v \in Values}
    \cup {OpDelete(n) : n \in ApplyIds}
    \cup {OpUpdate(n, ValNone, v) : n \in ApplyIds, v \in Values}
    \cup {OpRelabel(n, LabelA, l) : n \in ApplyIds, l \in Labels}
    \cup {OpMove(n, p, 0) : n \in ApplyIds, p \in ApplyIds}

Grow ==
    \E kind \in Kinds, label \in Labels, value \in Values,
       parent_id \in ApplyIds :
        /\ pc = "tree"
        /\ tree.next_id <= ApplyMaxId
        /\ has_node(tree, parent_id)
        /\ tree' = add_node_with_value(tree, kind, label, value, parent_id)
        /\ UNCHANGED <<issued, applyVars, diffVars, mergeVars, codecVars,
                       gcVars, repoVars, pc>>

Prune ==
    \E id \in ApplyIds :
        /\ pc = "tree"
        /\ tree' = remove_subtree(tree, id)
        /\ UNCHANGED <<issued, applyVars, diffVars, mergeVars, codecVars,
                       gcVars, repoVars, pc>>

ApplyOne ==
    \E op \in ApplyOps :
        /\ pc = "tree"
        /\ before' = tree
        /\ patch' = <<op>>
        /\ tree' = apply_patch(tree, <<op>>)
        /\ pc' = "applied"
        /\ UNCHANGED <<issued, diffVars, mergeVars, codecVars, gcVars,
                       repoVars>>

NextApply == Grow \/ Prune \/ ApplyOne

SpecApply == Init /\ [][NextApply]_vars

\* C8: apply_patch silently skips a missing target: an op whose target node
\* (Insert.parent_id; node_id of Delete, Update, Relabel, Move) is absent
\* leaves the tree unchanged: same nodes and children lists, same index and
\* parent index, same node_count.
C8_MissingTargetSkipped ==
    (pc = "applied" /\ ~has_node(before, op_target_node(patch[1]))) =>
        /\ tree.nodes = before.nodes
        /\ tree.index = before.index
        /\ tree.parent_index = before.parent_index
        /\ node_count(tree) = node_count(before)

(***************************************************************************)
(* SpecMoves: a tree of Group nodes is built by add_node, then Move ops    *)
(* are applied to it one after the other.  Every Move names a node that    *)
(* exists and is not the root, and a new parent that exists and is not in  *)
(* the subtree of the node.                                                *)
(***************************************************************************)
\* the largest id a moved tree holds, and the number of Moves applied
MoveMaxId == 3
MaxMoves == 2

MoveIds == 0..MoveMaxId

\* the Move of node_id under new_parent_id is one the claim speaks of
valid_move(t, node_id, new_parent_id) ==
    /\ has_node(t, node_id)
    /\ node_id # t.root_id
    /\ has_node(t, new_parent_id)
    /\ new_parent_id \notin Range(collect_subtree(t, node_id))

GrowGroup ==
    \E parent_id \in MoveIds :
        /\ pc = "tree"
        /\ tree.next_id <= MoveMaxId
        /\ has_node(tree, parent_id)
        /\ tree' = add_node(tree, "Group", LabelA, parent_id)
        /\ UNCHANGED <<issued, applyVars, diffVars, mergeVars, codecVars,
                       gcVars, repoVars, pc>>

\* apply_patch with the next Move of the script
MoveOne ==
    \E node_id \in MoveIds, new_parent_id \in MoveIds :
        /\ pc \in {"tree", "moved"}
        /\ Len(patch) < MaxMoves
        /\ valid_move(tree, node_id, new_parent_id)
        /\ before' = IF pc = "tree" THEN tree ELSE before
        /\ patch' = Append(patch, OpMove(node_id, new_parent_id, 0))
        /\ tree' = apply_patch(tree, <<OpMove(node_id, new_parent_id, 0)>>)
        /\ pc' = "moved"
        /\ UNCHANGED <<issued, diffVars, mergeVars, codecVars, gcVars,
                       repoVars>>

NextMoves == GrowGroup \/ MoveOne

SpecMoves == Init /\ [][NextMoves]_vars

\* the position in ops of the last Move of node n
last_move(ops, n) ==
    CHOOSE k \in 1..Len(ops) :
        /\ ops[k].node_id = n
        /\ \A j \in (k + 1)..Len(ops) : ops[j].node_id # n

\* the nodes other than n whose last Move comes after that of n and puts
\* them under the same parent
moved_behind(ops, n) ==
    {ops[k].node_id : k \in {j \in (last_move(ops, n) + 1)..Len(ops) :
        /\ ops[j].new_parent_id = ops[last_move(ops, n)].new_parent_id
        /\ last_move(ops, ops[j].node_id) = j}}

\* the places at which n stands in a children list of t
places(t, n) ==
    {<<i, j>> \in (1..Len(t.nodes)) \X (1..Len(t.nodes)) :
        j <= Len(t.nodes[i].children) /\ t.nodes[i].children[j] = n}

\* the children lists are as the Moves of ops leave them for node n: n is
\* in one list, that of the new parent of its last Move, behind all but the
\* nodes moved there later
children_moved(t, ops, n) ==
    /\ Cardinality(places(t, n)) = 1
    /\ \A p \in {ops[last_move(ops, n)].new_parent_id} :
           /\ Count(get_node(t, p).children, n) = 1
           /\ get_node(t, p).children[
                  Len(get_node(t, p).children)
                      - Cardinality(moved_behind(ops, n))] = n

RECURSIVE reaches_root(_, _, _)
\* from id the root is reached over at most n parent links
reaches_root(t, id, n) ==
    \/ id = t.root_id
    \/ /\ n > 0
       /\ has_parent(t, id)
       /\ reaches_root(t, parent_of(t, id), n - 1)

\* I4: the parent relation has no cycle
I4(t) == \A id \in DOMAIN t.index : reaches_root(t, id, node_count(t))

\* C28: Move keeps the tree a tree.  After a sequence of Moves, each of a
\* node that exists and is not the root under a parent that exists and is
\* not in the moved subtree, every moved node is in exactly one children
\* list, at the end of the children of the new parent of its last Move, and
\* parent_of(node) is that parent; I2, I3 and I4 hold.
C28_MoveKeepsTree ==
    pc = "moved" =>
        /\ \A k \in 1..Len(patch) :
               /\ children_moved(tree, patch, patch[k].node_id)
               /\ has_parent(tree, patch[k].node_id)
               /\ parent_of(tree, patch[k].node_id)
                      = patch[last_move(patch, patch[k].node_id)].new_parent_id
        /\ I2(tree)
        /\ I3(tree)
        /\ I4(tree)

\* the part of C28 that holds: a script that moves no node twice leaves
\* every moved node in exactly one children list, that of its new parent,
\* and I2 holds
C28_ChildrenAfterFirstMove ==
    pc = "moved"
        /\ (\A j, k \in 1..Len(patch) :
                patch[j].node_id = patch[k].node_id => j = k)
        => /\ \A k \in 1..Len(patch) :
                  children_moved(tree, patch, patch[k].node_id)
           /\ I2(tree)

(***************************************************************************)
(* SpecDiff: two trees are built by add_node_with_value, then              *)
(* diff_trees(old_tree, new_tree) is computed and applied to a clone of    *)
(* old_tree.                                                               *)
(***************************************************************************)
\* the (kind, label, value) triples the nodes of a diffed pair are made of
PairShapes ==
    {<<"Primitive", LabelA, ValNone>>, <<"Primitive", LabelA, Int1>>,
     <<"Primitive", LabelB, ValNone>>, <<"Group", LabelA, ValNone>>,
     <<"Primitive", LabelA, FloatNaN>>}

InitDiff ==
    /\ IdleTree
    /\ IdleApply
    /\ IdleDiff
    /\ IdleMerge
    /\ IdleCodec
    /\ IdleGc
    /\ IdleRepo
    /\ pc = "pair"

GrowOld ==
    \E shape \in PairShapes, parent_id \in 0..PairMaxId :
        /\ pc = "pair"
        /\ old_tree.next_id <= PairMaxId
        /\ has_node(old_tree, parent_id)
        /\ old_tree' = add_node_with_value(old_tree, shape[1], shape[2],
                                           shape[3], parent_id)
        /\ UNCHANGED <<new_tree, other_tree, treeVars, applyVars, mergeVars,
                       codecVars, gcVars, repoVars, pc>>

GrowNew ==
    \E shape \in PairShapes, parent_id \in 0..PairMaxId :
        /\ pc = "pair"
        /\ new_tree.next_id <= PairMaxId
        /\ has_node(new_tree, parent_id)
        /\ new_tree' = add_node_with_value(new_tree, shape[1], shape[2],
                                           shape[3], parent_id)
        /\ UNCHANGED <<old_tree, other_tree, treeVars, applyVars, mergeVars,
                       codecVars, gcVars, repoVars, pc>>

Diff ==
    /\ pc = "pair"
    /\ patch' = diff_trees(old_tree, new_tree)
    /\ pc' = "diffed"
    /\ UNCHANGED <<before, treeVars, diffVars, mergeVars, codecVars, gcVars,
                   repoVars>>

Apply ==
    /\ pc = "diffed"
    /\ before' = old_tree
    /\ tree' = apply_patch(old_tree, patch)
    /\ pc' = "applied"
    /\ UNCHANGED <<issued, patch, diffVars, mergeVars, codecVars, gcVars,
                   repoVars>>

NextDiff == GrowOld \/ GrowNew \/ Diff \/ Apply

SpecDiff == InitDiff /\ [][NextDiff]_vars

\* a Delete and an Insert of the script under the same parent: the pair by
\* which the diff replaces a child
HasDeleteInsertPair(t, ops) ==
    \E i, j \in 1..Len(ops) :
        /\ ops[i].op = "Delete"
        /\ ops[j].op = "Insert"
        /\ has_parent(t, ops[i].node_id)
        /\ parent_of(t, ops[i].node_id) = ops[j].parent_id

\* C1: apply_patch(clone of T1, diff_trees(T1, T2)) has the root subtree hash
\* of T2 whenever the script holds no Delete+Insert pair replacing a subtree
\* (in particular whenever it holds no Delete at all).
C1_DiffApplyRoundTrip ==
    (pc = "applied" /\ ~HasDeleteInsertPair(old_tree, patch)) =>
        subtree_hash(tree, tree.root_id)
            = subtree_hash(new_tree, new_tree.root_id)

\* the ids a script names: the target of each op, and the new parent of a
\* Move
named_ids(op) ==
    IF op.op = "Move" THEN {op.node_id, op.new_parent_id}
    ELSE {op_target_node(op)}

\* C19: every id named by an op of diff_trees(old, new) is the id of a node
\* of old, never an id created by an earlier Insert of the script, and when
\* the script is applied to old in order, the target of every op is still
\* there at the moment the op is applied.
C19_TargetsExist ==
    pc = "diffed" =>
        \A i \in 1..Len(patch) :
            \A id \in named_ids(patch[i]) :
                /\ has_node(old_tree, id)
                /\ id < old_tree.next_id
                /\ has_node(apply_patch(old_tree, SubSeq(patch, 1, i - 1)), id)

\* C19 witness: a script that deletes a child of the root, and then inserts
\* one, or updates one
C19_Witness ==
    /\ pc = "diffed"
    /\ \E i, j \in 1..Len(patch) :
           /\ i < j
           /\ patch[i].op = "Delete"
           /\ patch[j].op = "Insert"
    /\ \E i \in 1..Len(patch) : patch[i].op = "Update"

(***************************************************************************)
(* codec.rs: the varint patch codec.  On the wire a u32 is two 16-bit      *)
(* limbs <<low, high>> and a usize (64-bit target) four; the scripts the   *)
(* codec is given carry their ids and indices in that form.  Encoders      *)
(* return the bytes they push; decoders take (data, pos), pos counted from *)
(* 0 as in the code, and return [some, v, pos].                            *)
(***************************************************************************)
OP_INSERT == 0
OP_DELETE == 1
OP_UPDATE == 2
OP_RELABEL == 3
OP_MOVE == 4

VAL_NONE == 0
VAL_INT == 1
VAL_FLOAT == 2
VAL_TEXT == 3
VAL_IDENT == 4
VAL_BYTES == 5

\* a small number as u32 and as usize
U32(n) == <<n % 65536, n \div 65536>>
Usize(n) == <<n % 65536, n \div 65536, 0, 0>>

\* Option::None and Some(v) with the position reached
DecNone == [some |-> FALSE]
DecSome(v, pos) == [some |-> TRUE, v |-> v, pos |-> pos]

RECURSIVE Pow2(_)
Pow2(n) == IF n = 0 THEN 1 ELSE 2 * Pow2(n - 1)

\* ((byte & 0x7F) as u32) << shift with the carry into the high limb lost
shl_u32_no_carry(d, shift) ==
    IF shift < 16
    THEN <<(d * Pow2(shift)) % 65536, 0>>
    ELSE <<0, (d * Pow2(shift - 16)) % 65536>>

\* ((byte & 0x7F) as u32) << shift, for shift < 32: bits shifted past bit 31
\* are dropped
shl_u32(d, shift) ==
    IF shift < 16
    THEN <<(d * Pow2(shift)) % 65536, (d * Pow2(shift)) \div 65536>>
    ELSE <<0, (d * Pow2(shift - 16)) % 65536>>

\* value | x where x has no set bit of value in common (each 7-bit group of
\* a varint lands on bits of its own), so that | is limb-wise addition
or_disjoint(value, x) == <<value[1] + x[1], value[2] + x[2]>>

\* value >> 7 on a u32
shr7_u32(value) ==
    <<(value[1] \div 128) + (value[2] % 128) * 512, value[2] \div 128>>

RECURSIVE encode_varint_u32(_)
\* codec.rs encode_varint_u32: the bytes pushed
encode_varint_u32(value) ==
    LET byte == value[1] % 128
        rest == shr7_u32(value)
    IN  IF rest # <<0, 0>>
        THEN <<byte + 128>> \o encode_varint_u32(rest)
        ELSE <<byte>>

RECURSIVE decode_varint_loop(_, _, _, _)
\* the loop of decode_varint_u32, entered with value and shift
decode_varint_loop(data, pos, value, shift) ==
    IF pos >= Len(data) THEN DecNone
    ELSE LET byte == data[pos + 1]
             value1 == or_disjoint(value, shl_u32(byte % 128, shift))
         IN  IF byte < 128 THEN DecSome(value1, pos + 1)
             ELSE IF shift + 7 >= 35 THEN DecNone
             ELSE decode_varint_loop(data, pos + 1, value1, shift + 7)

\* codec.rs decode_varint_u32
decode_varint_u32(data, pos) == decode_varint_loop(data, pos, <<0, 0>>, 0)

\* codec.rs encode_usize: value as u32 keeps the low 32 bits
encode_usize(value) == encode_varint_u32(<<value[1], value[2]>>)

\* v as usize zero-extends
widen(r) ==
    IF r.some THEN DecSome(<<r.v[1], r.v[2], 0, 0>>, r.pos) ELSE DecNone

\* codec.rs decode_usize
decode_usize(data, pos) == widen(decode_varint_u32(data, pos))

\* i64::to_le_bytes / f64::to_le_bytes: each 16-bit limb gives two bytes
to_le_bytes(w) ==
    Concat([i \in 1..4 |-> <<w[i] % 256, w[i] \div 256>>])

\* i64::from_le_bytes / f64::from_le_bytes of eight bytes
from_le_bytes(bs) == [i \in 1..4 |-> bs[2 * i - 1] + 256 * bs[2 * i]]

\* *pos + len > data.len(), len a usize; data is shorter than 2^16 bytes here
past_end(data, pos, len) ==
    len[2] # 0 \/ len[3] # 0 \/ len[4] # 0 \/ pos + len[1] > Len(data)

\* data[*pos..*pos + len], where it is in range
slice(data, pos, len) == SubSeq(data, pos + 1, pos + len[1])

\* a continuation byte 10xxxxxx at position i of bs
is_cont(bs, i) == i <= Len(bs) /\ bs[i] >= 128 /\ bs[i] <= 191

RECURSIVE is_utf8(_)
\* String::from_utf8(..).is_ok(): well-formed UTF-8 (no overlong forms, no
\* surrogates, nothing above U+10FFFF)
is_utf8(bs) ==
    IF bs = <<>> THEN TRUE
    ELSE LET b == bs[1]
         IN  CASE b < 128 -> is_utf8(SubSeq(bs, 2, Len(bs)))
               [] b >= 194 /\ b <= 223 ->
                      is_cont(bs, 2) /\ is_utf8(SubSeq(bs, 3, Len(bs)))
               [] b >= 224 /\ b <= 239 ->
                      /\ is_cont(bs, 2)
                      /\ is_cont(bs, 3)
                      /\ (b = 224 => bs[2] >= 160)
                      /\ (b = 237 => bs[2] <= 159)
                      /\ is_utf8(SubSeq(bs, 4, Len(bs)))
               [] b >= 240 /\ b <= 244 ->
                      /\ is_cont(bs, 2)
                      /\ is_cont(bs, 3)
                      /\ is_cont(bs, 4)
                      /\ (b = 240 => bs[2] >= 144)
                      /\ (b = 244 => bs[2] <= 143)
                      /\ is_utf8(SubSeq(bs, 5, Len(bs)))
               [] OTHER -> FALSE

\* codec.rs encode_value
encode_value(value) ==
    CASE value.tag = "None" -> <<VAL_NONE>>
      [] value.tag = "Int" -> <<VAL_INT>> \o to_le_bytes(value.w)
      [] value.tag = "Float" -> <<VAL_FLOAT>> \o to_le_bytes(value.w)
      [] value.tag = "Text" ->
             <<VAL_TEXT>> \o encode_usize(Usize(Len(value.s))) \o value.s
      [] value.tag = "Ident" ->
             <<VAL_IDENT>> \o encode_usize(Usize(Len(value.s))) \o value.s
      [] value.tag = "Bytes" ->
             <<VAL_BYTES>> \o encode_usize(Usize(Len(value.s))) \o value.s

\* the eight bytes an Int or a Float is read from, as a word
decode_word(data, pos) ==
    IF pos + 8 > Len(data) THEN DecNone
    ELSE DecSome(from_le_bytes(SubSeq(data, pos + 1, pos + 8)), pos + 8)

\* the bytes that follow a decoded length: the range check, from_utf8 where
\* the bytes become a String, and the advance of pos
blob_after(data, len, utf8) ==
    IF ~len.some THEN DecNone
    ELSE IF past_end(data, len.pos, len.v) THEN DecNone
    ELSE IF utf8 /\ ~is_utf8(slice(data, len.pos, len.v)) THEN DecNone
    ELSE DecSome(slice(data, len.pos, len.v), len.pos + len.v[1])

\* the length-prefixed bytes a Text, an Ident, a Bytes or a label is read from
decode_blob(data, pos, utf8) ==
    blob_after(data, decode_usize(data, pos), utf8)

\* Some(NodeValue) of the variant `tag` around a decoded payload
value_of(tag, r) ==
    IF ~r.some THEN DecNone
    ELSE CASE tag = VAL_INT -> DecSome(ValInt(r.v), r.pos)
           [] tag = VAL_FLOAT -> DecSome(ValFloat(r.v), r.pos)
           [] tag = VAL_TEXT -> DecSome(ValText(r.v), r.pos)
           [] tag = VAL_IDENT -> DecSome(ValIdent(r.v), r.pos)
           [] tag = VAL_BYTES -> DecSome(ValBytes(r.v), r.pos)

\* codec.rs decode_value
decode_value(data, pos) ==
    IF pos >= Len(data) THEN DecNone
    ELSE CASE data[pos + 1] = VAL_NONE -> DecSome(ValNone, pos + 1)
           [] data[pos + 1] \in {VAL_INT, VAL_FLOAT} ->
                  value_of(data[pos + 1], decode_word(data, pos + 1))
           [] data[pos + 1] \in {VAL_TEXT, VAL_IDENT, VAL_BYTES} ->
                  value_of(data[pos + 1],
                           decode_blob(data, pos + 1,
                                       data[pos + 1] # VAL_BYTES))
           [] OTHER -> DecNone

\* codec.rs encode_string
encode_string(s) == encode_usize(Usize(Len(s))) \o s

\* codec.rs decode_string
decode_string(data, pos) == decode_blob(data, pos, TRUE)

\* codec.rs encode_op
encode_op(op) ==
    CASE op.op = "Insert" ->
             <<OP_INSERT>> \o encode_varint_u32(op.parent_id)
                 \o encode_usize(op.index) \o <<KindByte(op.kind)>>
                 \o encode_string(op.label) \o encode_value(op.value)
      [] op.op = "Delete" -> <<OP_DELETE>> \o encode_varint_u32(op.node_id)
      [] op.op = "Update" ->
             <<OP_UPDATE>> \o encode_varint_u32(op.node_id)
                 \o encode_value(op.old_value) \o encode_value(op.new_value)
      [] op.op = "Relabel" ->
             <<OP_RELABEL>> \o encode_varint_u32(op.node_id)
                 \o encode_string(op.old_label) \o encode_string(op.new_label)
      [] op.op = "Move" ->
             <<OP_MOVE>> \o encode_varint_u32(op.node_id)
                 \o encode_varint_u32(op.new_parent_id)
                 \o encode_usize(op.new_index)

\* decode_op reads the fields of an op one after the other and gives up at
\* the first that fails (the ? operator).  Each step below takes the fields
\* read so far and the result of the read that follows them.
insert_value(parent_id, index, kind, label, value) ==
    IF ~value.some THEN DecNone
    ELSE DecSome(OpInsert(parent_id, index, kind, label.v, value.v), value.pos)

insert_label(data, parent_id, index, kind, label) ==
    IF ~label.some THEN DecNone
    ELSE insert_value(parent_id, index, kind, label,
                      decode_value(data, label.pos))

insert_index(data, parent_id, index) ==
    IF ~index.some THEN DecNone
    ELSE IF index.pos >= Len(data) THEN DecNone
    ELSE insert_label(data, parent_id, index.v, from_u8(data[index.pos + 1]),
                      decode_string(data, index.pos + 1))

insert_parent_id(data, parent_id) ==
    IF ~parent_id.some THEN DecNone
    ELSE insert_index(data, parent_id.v, decode_usize(data, parent_id.pos))

\* the OP_INSERT arm of decode_op
decode_insert(data, pos) ==
    insert_parent_id(data, decode_varint_u32(data, pos))

delete_node_id(node_id) ==
    IF ~node_id.some THEN DecNone
    ELSE DecSome(OpDelete(node_id.v), node_id.pos)

\* the OP_DELETE arm of decode_op
decode_delete(data, pos) == delete_node_id(decode_varint_u32(data, pos))

update_new_value(node_id, old_value, new_value) ==
    IF ~new_value.some THEN DecNone
    ELSE DecSome(OpUpdate(node_id, old_value.v, new_value.v), new_value.pos)

update_old_value(data, node_id, old_value) ==
    IF ~old_value.some THEN DecNone
    ELSE update_new_value(node_id, old_value,
                          decode_value(data, old_value.pos))

update_node_id(data, node_id) ==
    IF ~node_id.some THEN DecNone
    ELSE update_old_value(data, node_id.v, decode_value(data, node_id.pos))

\* the OP_UPDATE arm of decode_op
decode_update(data, pos) == update_node_id(data, decode_varint_u32(data, pos))

relabel_new_label(node_id, old_label, new_label) ==
    IF ~new_label.some THEN DecNone
    ELSE DecSome(OpRelabel(node_id, old_label.v, new_label.v), new_label.pos)

relabel_old_label(data, node_id, old_label) ==
    IF ~old_label.some THEN DecNone
    ELSE relabel_new_label(node_id, old_label,
                           decode_string(data, old_label.pos))

relabel_node_id(data, node_id) ==
    IF ~node_id.some THEN DecNone
    ELSE relabel_old_label(data, node_id.v, decode_string(data, node_id.pos))

\* the OP_RELABEL arm of decode_op
decode_relabel(data, pos) ==
    relabel_node_id(data, decode_varint_u32(data, pos))

move_new_index(node_id, new_parent_id, new_index) ==
    IF ~new_index.some THEN DecNone
    ELSE DecSome(OpMove(node_id, new_parent_id.v, new_index.v), new_index.pos)

move_new_parent_id(data, node_id, new_parent_id) ==
    IF ~new_parent_id.some THEN DecNone
    ELSE move_new_index(node_id, new_parent_id,
                        decode_usize(data, new_parent_id.pos))

move_node_id(data, node_id) ==
    IF ~node_id.some THEN DecNone
    ELSE move_new_parent_id(data, node_id.v,
                            decode_varint_u32(data, node_id.pos))

\* the OP_MOVE arm of decode_op
decode_move(data, pos) == move_node_id(data, decode_varint_u32(data, pos))

\* codec.rs decode_op
decode_op(data, pos) ==
    IF pos >= Len(data) THEN DecNone
    ELSE LET tag == data[pos + 1]
         IN  CASE tag = OP_INSERT -> decode_insert(data, pos + 1)
               [] tag = OP_DELETE -> decode_delete(data, pos + 1)
               [] tag = OP_UPDATE -> decode_update(data, pos + 1)
               [] tag = OP_RELABEL -> decode_relabel(data, pos + 1)
               [] tag = OP_MOVE -> decode_move(data, pos + 1)
               [] OTHER -> DecNone

\* codec.rs encode_patch
encode_patch(ops) ==
    encode_usize(Usize(Len(ops)))
        \o Concat([i \in 1..Len(ops) |-> encode_op(ops[i])])

\* count - 1 on a usize that is not zero
dec_usize(count) ==
    IF count[1] > 0 THEN [count EXCEPT ![1] = @ - 1]
    ELSE IF count[2] > 0 THEN [count EXCEPT ![1] = 65535, ![2] = @ - 1]
    ELSE IF count[3] > 0
    THEN [count EXCEPT ![1] = 65535, ![2] = 65535, ![3] = @ - 1]
    ELSE [count EXCEPT ![1] = 65535, ![2] = 65535, ![3] = 65535, ![4] = @ - 1]

RECURSIVE decode_ops(_, _, _, _)
RECURSIVE push_op(_, _, _, _)
\* ops.push(decode_op(data, &mut pos)?) and the iterations that follow it
push_op(data, count, ops, op) ==
    IF ~op.some THEN DecNone
    ELSE decode_ops(data, op.pos, dec_usize(count), Append(ops, op.v))

\* the loop of decode_patch with `count` iterations left
decode_ops(data, pos, count, ops) ==
    IF count = <<0, 0, 0, 0>> THEN [some |-> TRUE, ops |-> ops]
    ELSE push_op(data, count, ops, decode_op(data, pos))

\* the count read, then the loop
patch_count(data, count) ==
    IF ~count.some THEN DecNone
    ELSE decode_ops(data, count.pos, count.v, <<>>)

\* codec.rs decode_patch
decode_patch(data) == patch_count(data, decode_usize(data, 0))

(***************************************************************************)
(* SpecCodec: a script is assembled op by op, encoded by encode_patch and  *)
(* the bytes are decoded by decode_patch.                                  *)
(***************************************************************************)
\* ops a script handed to the codec may hold
MaxScriptLen == 2

\* u32 ids at the varint length boundaries: 0, 127, 128, 16383, 16384, 2^32-1
WireIds ==
    {U32(0), U32(127), U32(128), U32(16383), U32(16384), <<65535, 65535>>}

\* usize indices: 0, 1, 2^32 - 1, 2^32, 2^63 + 5
WireIndices ==
    {Usize(0), Usize(1), <<65535, 65535, 0, 0>>, <<0, 0, 1, 0>>,
     <<5, 0, 0, 32768>>}

\* "", "a", "é"
WireStrings == {<<>>, LabelA, <<195, 169>>}

\* one value or more of every NodeValue variant: None, Int(1), Int(-1),
\* Float(1.0), Float(NaN), Text, Ident, Bytes (not UTF-8)
WireValues ==
    {ValNone, Int1, ValInt(<<65535, 65535, 65535, 65535>>), Float1, FloatNaN,
     ValText(<<>>), ValText(<<195, 169>>), ValIdent(LabelB),
     ValBytes(<<255, 0>>)}

CodecOps ==
    {OpInsert(U32(0), i, "Primitive", LabelA, ValNone) : i \in WireIndices}
    \cup {OpInsert(<<65535, 65535>>, Usize(0), k, <<195, 169>>, Int1) :
              k \in AstNodeKind}
    \cup {OpDelete(n) : n \in WireIds}
    \cup {OpUpdate(U32(1), ValNone, v) : v \in WireValues}
    \cup {OpUpdate(U32(1), v, ValNone) : v \in {Float1, ValText(<<195, 169>>)}}
    \cup {OpRelabel(U32(1), old_label, LabelB) : old_label \in WireStrings}
    \cup {OpMove(U32(128), U32(16384), i) : i \in WireIndices}

InitCodec ==
    /\ IdleTree
    /\ IdleApply
    /\ IdleDiff
    /\ IdleMerge
    /\ IdleCodec
    /\ IdleGc
    /\ IdleRepo
    /\ pc = "script"

PushOp ==
    \E op \in CodecOps :
        /\ pc = "script"
        /\ Len(wire) < MaxScriptLen
        /\ wire' = Append(wire, op)
        /\ UNCHANGED <<buf, decoded, treeVars, applyVars, diffVars, mergeVars,
                       gcVars, repoVars, pc>>

Encode ==
    /\ pc = "script"
    /\ buf' = encode_patch(wire)
    /\ pc' = "encoded"
    /\ UNCHANGED <<wire, decoded, treeVars, applyVars, diffVars, mergeVars,
                   gcVars, repoVars>>

Decode ==
    /\ pc = "encoded"
    /\ decoded' = decode_patch(buf)
    /\ pc' = "decoded"
    /\ UNCHANGED <<wire, buf, treeVars, applyVars, diffVars, mergeVars, gcVars,
                   repoVars>>

NextCodec == PushOp \/ Encode \/ Decode

SpecCodec == InitCodec /\ [][NextCodec]_vars

\* the usize fits in 32 bits
fits_u32(w) == w[3] = 0 /\ w[4] = 0

\* every index and new_index of the script fits in 32 bits
IndicesFitU32(ops) ==
    \A i \in 1..Len(ops) :
        /\ (ops[i].op = "Insert" => fits_u32(ops[i].index))
        /\ (ops[i].op = "Move" => fits_u32(ops[i].new_index))

AllocFailure == [some |-> FALSE, alloc |-> "failed"]

\* Vec::with_capacity(count) is sure to return
with_capacity_served(count, data) ==
    count[2] = 0 /\ count[3] = 0 /\ count[4] = 0 /\ count[1] <= Len(data)

\* what a call of decode_patch can come to
decode_patch_outcomes(data) ==
    IF ~decode_usize(data, 0).some THEN {DecNone}
    ELSE IF with_capacity_served(decode_usize(data, 0).v, data)
    THEN {decode_patch(data)}
    ELSE {decode_patch(data), AllocFailure}

\* op tags outside 0x00..0x04, value tags outside 0x00..0x05
BadOpTags == {5, 255}
BadValueTags == {6, 255}
\* bytes that make a one-byte string invalid UTF-8
BadUtf8Bytes == {128, 255}
\* a varint of five bytes with the continuation bit, and a sixth
LongVarint == <<255, 255, 255, 255, 255, 1>>

\* the value an op ends with, where it ends with one
last_value(op) ==
    CASE op.op = "Insert" -> op.value
      [] op.op = "Update" -> op.new_value
      [] OTHER -> Int1

\* a strict prefix of the encoding
Truncate ==
    \E n \in 0..(Len(buf) - 1) :
        /\ pc = "encoded"
        /\ buf' = SubSeq(buf, 1, n)
        /\ pc' = "malformed"
        /\ UNCHANGED <<wire, decoded, treeVars, applyVars, diffVars,
                       mergeVars, gcVars, repoVars>>

\* the count replaced by one that announces more ops than follow
ShortOfOps ==
    \E count \in {Usize(Len(wire) + 1), <<65535, 65535, 0, 0>>} :
        /\ pc = "encoded"
        /\ buf' = encode_usize(count) \o Tail(buf)
        /\ pc' = "malformed"
        /\ UNCHANGED <<wire, decoded, treeVars, applyVars, diffVars,
                       mergeVars, gcVars, repoVars>>

\* the tag of the first op replaced
BadOpTag ==
    \E t \in BadOpTags :
        /\ pc = "encoded"
        /\ wire # <<>>
        /\ buf' = [buf EXCEPT ![2] = t]
        /\ pc' = "malformed"
        /\ UNCHANGED <<wire, decoded, treeVars, applyVars, diffVars,
                       mergeVars, gcVars, repoVars>>

\* the script ends with a value None: its tag, the last byte, replaced
BadValueTag ==
    \E t \in BadValueTags :
        /\ pc = "encoded"
        /\ wire # <<>>
        /\ last_value(wire[Len(wire)]) = ValNone
        /\ buf' = [buf EXCEPT ![Len(buf)] = t]
        /\ pc' = "malformed"
        /\ UNCHANGED <<wire, decoded, treeVars, applyVars, diffVars,
                       mergeVars, gcVars, repoVars>>

\* the script ends with a Relabel to "b": the byte of the label replaced
BadUtf8 ==
    \E b \in BadUtf8Bytes :
        /\ pc = "encoded"
        /\ wire # <<>>
        /\ wire[Len(wire)].op = "Relabel"
        /\ wire[Len(wire)].new_label = LabelB
        /\ buf' = [buf EXCEPT ![Len(buf)] = b]
        /\ pc' = "malformed"
        /\ UNCHANGED <<wire, decoded, treeVars, applyVars, diffVars,
                       mergeVars, gcVars, repoVars>>

\* the count, or the id after the tag of the first op, replaced by a varint
\* that continues past five bytes
OverlongVarint ==
    \E k \in {0, 2} :
        /\ pc = "encoded"
        /\ k <= Len(buf)
        /\ buf' = SubSeq(buf, 1, k) \o LongVarint
        /\ pc' = "malformed"
        /\ UNCHANGED <<wire, decoded, treeVars, applyVars, diffVars,
                       mergeVars, gcVars, repoVars>>

DecodeMalformed ==
    \E outcome \in decode_patch_outcomes(buf) :
        /\ pc = "malformed"
        /\ decoded' = outcome
        /\ pc' = "malformed_decoded"
        /\ UNCHANGED <<wire, buf, treeVars, applyVars, diffVars, mergeVars,
                       gcVars, repoVars>>

NextMalformed ==
    \/ PushOp
    \/ Encode
    \/ Truncate
    \/ ShortOfOps
    \/ BadOpTag
    \/ BadValueTag
    \/ BadUtf8
    \/ OverlongVarint
    \/ DecodeMalformed

SpecMalformed == InitCodec /\ [][NextMalformed]_vars

\* C18: decode_patch returns an absent result, never a partial list and
\* never a panic, for every malformed buffer: the empty buffer, a strict
\* prefix of a valid encoding, an op tag outside 0x00..0x04, a value tag
\* outside 0x00..0x05, invalid UTF-8 in a string field, a varint that
\* continues past five bytes.
C18_MalformedRejected == pc = "malformed_decoded" => decoded = DecNone

(***************************************************************************)
(* merge.rs: merge_patches.                                                *)
(***************************************************************************)
\* #[derive(PartialEq)] on DiffOp: the same variant with equal fields, the
\* values compared by the PartialEq of NodeValue
DiffOp_eq(a, b) ==
    /\ a.op = b.op
    /\ CASE a.op = "Insert" ->
                /\ a.parent_id = b.parent_id
                /\ a.index = b.index
                /\ a.kind = b.kind
                /\ a.label = b.label
                /\ ValueEq(a.value, b.value)
         [] a.op = "Delete" -> a.node_id = b.node_id
         [] a.op = "Update" ->
                /\ a.node_id = b.node_id
                /\ ValueEq(a.old_value, b.old_value)
                /\ ValueEq(a.new_value, b.new_value)
         [] a.op = "Relabel" ->
                /\ a.node_id = b.node_id
                /\ a.old_label = b.old_label
                /\ a.new_label = b.new_label
         [] a.op = "Move" ->
                /\ a.node_id = b.node_id
                /\ a.new_parent_id = b.new_parent_id
                /\ a.new_index = b.new_index

\* Vec<DiffOp> == Vec<DiffOp>
ops_eq(xs, ys) ==
    /\ Len(xs) = Len(ys)
    /\ \A i \in 1..Len(xs) : DiffOp_eq(xs[i], ys[i])

\* merge.rs affected_nodes: the targets of the ops, each once, in the order
\* of their first occurrence
affected_nodes(ops) ==
    Concat([i \in 1..Len(ops) |->
        IF \E j \in 1..(i - 1) :
               op_target_node(ops[j]) = op_target_node(ops[i])
        THEN <<>>
        ELSE <<op_target_node(ops[i])>>])

\* the ops of a patch whose target is not among `affected`
non_conflicting(ops, affected) ==
    Concat([i \in 1..Len(ops) |->
        IF op_target_node(ops[i]) \in Range(affected) THEN <<>>
        ELSE <<ops[i]>>])

\* the first op of a patch on node_id alone
ops_on_first(ops, node_id) ==
    IF \E i \in 1..Len(ops) : op_target_node(ops[i]) = node_id
    THEN <<ops[CHOOSE i \in 1..Len(ops) :
                   /\ op_target_node(ops[i]) = node_id
                   /\ \A j \in 1..(i - 1) : op_target_node(ops[j]) # node_id]>>
    ELSE <<>>

\* patch.iter().filter(|o| op_target_node(o) == node_id).cloned().collect()
ops_on(ops, node_id) ==
    Concat([i \in 1..Len(ops) |->
        IF op_target_node(ops[i]) = node_id THEN <<ops[i]>> ELSE <<>>])

\* merge.rs Conflict
Conflict(node_id, ops_a, ops_b) ==
    [node_id |-> node_id, description |-> "conflicting edits on same node",
     ops_a |-> ops_a, ops_b |-> ops_b]

\* a faulty pass over the nodes both patches affect: of ops that both sides
\* make alike, only the first goes to merged_ops
auto_resolved_first(a, b, affected) ==
    Concat([k \in 1..Len(affected) |->
        IF affected[k] \in Range(affected_nodes(b))
           /\ ops_eq(ops_on(a, affected[k]), ops_on(b, affected[k]))
        THEN ops_on_first(a, affected[k])
        ELSE <<>>])

\* the pass over the nodes both patches affect: what it appends to
\* merged_ops
auto_resolved(a, b, affected) ==
    Concat([k \in 1..Len(affected) |->
        IF affected[k] \in Range(affected_nodes(b))
           /\ ops_eq(ops_on(a, affected[k]), ops_on(b, affected[k]))
        THEN ops_on(a, affected[k])
        ELSE <<>>])

\* a faulty pass that reports every node both patches affect
conflicting_all(a, b, affected) ==
    Concat([k \in 1..Len(affected) |->
        IF affected[k] \in Range(affected_nodes(b))
        THEN <<Conflict(affected[k], ops_on(a, affected[k]),
                        ops_on(b, affected[k]))>>
        ELSE <<>>])

\* the same pass: what it appends to conflicts
conflicting(a, b, affected) ==
    Concat([k \in 1..Len(affected) |->
        IF affected[k] \in Range(affected_nodes(b))
           /\ ~ops_eq(ops_on(a, affected[k]), ops_on(b, affected[k]))
        THEN <<Conflict(affected[k], ops_on(a, affected[k]),
                        ops_on(b, affected[k]))>>
        ELSE <<>>])

\* a faulty merge that settles every contested node in favour of side A
merge_patches_a_wins(a, b) ==
    [merged_ops |->
         non_conflicting(a, affected_nodes(b))
             \o non_conflicting(b, affected_nodes(a))
             \o Concat([k \in 1..Len(affected_nodes(a)) |->
                    IF affected_nodes(a)[k] \in Range(affected_nodes(b))
                    THEN ops_on(a, affected_nodes(a)[k])
                    ELSE <<>>]),
     conflicts |-> <<>>]

\* a merge that forgets the ops of side B that conflict with nothing
merge_patches_a_only(a, b) ==
    [merged_ops |->
         non_conflicting(a, affected_nodes(b))
             \o auto_resolved(a, b, affected_nodes(a)),
     conflicts |-> conflicting(a, b, affected_nodes(a))]

\* a merge that takes the ops of side B before those of side A
merge_patches_b_first(a, b) ==
    [merged_ops |->
         non_conflicting(b, affected_nodes(a))
             \o non_conflicting(a, affected_nodes(b))
             \o auto_resolved(a, b, affected_nodes(a)),
     conflicts |-> conflicting(a, b, affected_nodes(a))]

\* merge.rs merge_patches
merge_patches(a, b) ==
    [merged_ops |->
         non_conflicting(a, affected_nodes(b))
             \o non_conflicting(b, affected_nodes(a))
             \o auto_resolved(a, b, affected_nodes(a)),
     conflicts |-> conflicting(a, b, affected_nodes(a))]

(***************************************************************************)
(* SpecMerge: two scripts are assembled op by op and merged.               *)
(***************************************************************************)
\* ops each of the two scripts handed to merge_patches may hold
MaxPatchLen == 2

\* Float(0.0) and Float(-0.0)
FloatZero == ValFloat(<<0, 0, 0, 0>>)
FloatNegZero == ValFloat(<<0, 0, 0, 32768>>)

\* ops of every variant on the nodes 1 and 2, and one on node 3; the Updates
\* of node 1 differ in their new value only, the two Inserts add different
\* children to node 2
MergeOps ==
    {OpUpdate(1, ValNone, v) : v \in {FloatZero, FloatNegZero, FloatNaN}}
    \cup {OpDelete(2), OpDelete(3),
          OpInsert(2, 0, "Primitive", LabelA, ValNone),
          OpInsert(2, 1, "Primitive", LabelB, ValNone),
          OpRelabel(1, LabelA, LabelB), OpMove(1, 2, 0)}

InitMerge ==
    /\ IdleTree
    /\ IdleApply
    /\ IdleDiff
    /\ IdleMerge
    /\ IdleCodec
    /\ IdleGc
    /\ IdleRepo
    /\ pc = "scripts"

PushA ==
    \E op \in MergeOps :
        /\ pc = "scripts"
        /\ Len(patch_a) < MaxPatchLen
        /\ patch_a' = Append(patch_a, op)
        /\ UNCHANGED <<patch_b, merge_result, treeVars, applyVars, diffVars,
                       codecVars, gcVars, repoVars, pc>>

PushB ==
    \E op \in MergeOps :
        /\ pc = "scripts"
        /\ Len(patch_b) < MaxPatchLen
        /\ patch_b' = Append(patch_b, op)
        /\ UNCHANGED <<patch_a, merge_result, treeVars, applyVars, diffVars,
                       codecVars, gcVars, repoVars, pc>>

Merge ==
    /\ pc = "scripts"
    /\ merge_result' = merge_patches(patch_a, patch_b)
    /\ pc' = "merged"
    /\ UNCHANGED <<patch_a, patch_b, treeVars, applyVars, diffVars, codecVars,
                   gcVars, repoVars>>

NextMerge == PushA \/ PushB \/ Merge

SpecMerge == InitMerge /\ [][NextMerge]_vars

\* the ops of the conflicts, side A and side B
ConflictOpsA(r) ==
    UNION {Range(r.conflicts[k].ops_a) : k \in 1..Len(r.conflicts)}
ConflictOpsB(r) ==
    UNION {Range(r.conflicts[k].ops_b) : k \in 1..Len(r.conflicts)}

\* op is among ops: as a copy of it, or as an op that the == of DiffOp does
\* not tell from it (an Update to Float(0.0) stands for one to Float(-0.0))
Carried(op, ops) == \E x \in ops : x = op \/ DiffOp_eq(x, op)

\* C3: merge_patches never silently loses an edit: every op of A is in
\* merged_ops or in the ops_a of a Conflict, every op of B is in merged_ops
\* or in the ops_b of a Conflict, and every op of merged_ops is an op of A
\* or of B.
C3_NoEditLost ==
    pc = "merged" =>
        /\ \A op \in Range(patch_a) :
               Carried(op, Range(merge_result.merged_ops)
                               \cup ConflictOpsA(merge_result))
        /\ \A op \in Range(patch_b) :
               Carried(op, Range(merge_result.merged_ops)
                               \cup ConflictOpsB(merge_result))
        /\ Range(merge_result.merged_ops) \subseteq
               Range(patch_a) \cup Range(patch_b)

\* C3 witness: a merge that took an op of one side as is, auto-resolved a
\* node both sides edit alike, and reported a conflict holding ops of both
C3_Witness ==
    /\ pc = "merged"
    /\ Len(patch_a) = 2
    /\ Len(patch_b) = 2
    /\ Len(merge_result.merged_ops) = 1
    /\ Len(merge_result.conflicts) = 1
    /\ merge_result.conflicts[1].ops_a # <<>>
    /\ merge_result.conflicts[1].ops_b # <<>>

\* the set of target ids of a script
targets(ops) == {op_target_node(ops[i]) : i \in 1..Len(ops)}

\* C15: when the target-id sets of A and B are disjoint, merge_patches(A, B)
\* has no conflicts and merged_ops is the ops of A in their order followed by
\* the ops of B in their order.
C15_DisjointConcat ==
    pc = "merged" /\ targets(patch_a) \cap targets(patch_b) = {} =>
        /\ merge_result.conflicts = <<>>
        /\ merge_result.merged_ops = patch_a \o patch_b
        /\ Len(merge_result.merged_ops) = Len(patch_a) + Len(patch_b)

\* C15 witness: two scripts of two ops each, on different nodes, merged
C15_Witness ==
    /\ pc = "merged"
    /\ Len(patch_a) = 2
    /\ Len(patch_b) = 2
    /\ patch_a[1] # patch_a[2]
    /\ patch_b[1] # patch_b[2]
    /\ targets(patch_a) \cap targets(patch_b) = {}
    /\ merge_result.merged_ops = patch_a \o patch_b

\* the subsequence of a script that targets id
targeting(ops, id) == SelectSeq(ops, LAMBDA o : op_target_node(o) = id)

\* the conflicts reported for id
conflicts_on(r, id) == {k \in 1..Len(r.conflicts) : r.conflicts[k].node_id = id}

\* C17: for every id that both A and B target: when the subsequence of A
\* targeting it differs from that of B, there is exactly one Conflict with
\* that node_id, it carries both subsequences, and merged_ops holds no op
\* on that id; when the two are equal, there is no conflict for it and
\* merged_ops holds the subsequence exactly once.  Equal is the == of
\* Vec<DiffOp>.
C17_SharedTargets ==
    pc = "merged" =>
        \A id \in targets(patch_a) \cap targets(patch_b) :
            IF ops_eq(targeting(patch_a, id), targeting(patch_b, id))
            THEN /\ conflicts_on(merge_result, id) = {}
                 /\ targeting(merge_result.merged_ops, id)
                        = targeting(patch_a, id)
            ELSE /\ Cardinality(conflicts_on(merge_result, id)) = 1
                 /\ \A k \in conflicts_on(merge_result, id) :
                        /\ merge_result.conflicts[k].ops_a
                               = targeting(patch_a, id)
                        /\ merge_result.conflicts[k].ops_b
                               = targeting(patch_b, id)
                 /\ targeting(merge_result.merged_ops, id) = <<>>

\* C17 witness: both sides update node 1 alike and insert different
\* children under node 2; the update is merged once, the inserts conflict
C17_Witness ==
    /\ pc = "merged"
    /\ patch_a = <<OpUpdate(1, ValNone, FloatZero),
                   OpInsert(2, 0, "Primitive", LabelA, ValNone)>>
    /\ patch_b = <<OpUpdate(1, ValNone, FloatZero),
                   OpInsert(2, 1, "Primitive", LabelB, ValNone)>>
    /\ merge_result.merged_ops = <<OpUpdate(1, ValNone, FloatZero)>>
    /\ Len(merge_result.conflicts) = 1
    /\ merge_result.conflicts[1].node_id = 2

(***************************************************************************)
(* SpecSelfMerge: one script is assembled op by op and merged with itself. *)
(***************************************************************************)
MaxSelfLen == 3

PushBoth ==
    \E op \in MergeOps :
        /\ pc = "scripts"
        /\ Len(patch_a) < MaxSelfLen
        /\ patch_a' = Append(patch_a, op)
        /\ patch_b' = Append(patch_b, op)
        /\ UNCHANGED <<merge_result, treeVars, applyVars, diffVars, codecVars,
                       gcVars, repoVars, pc>>

NextSelfMerge == PushBoth \/ Merge

SpecSelfMerge == InitMerge /\ [][NextSelfMerge]_vars

\* the position of the first op of s that has the target of op
first_appearance(s, op) ==
    CHOOSE i \in 1..Len(s) :
        /\ op_target_node(s[i]) = op_target_node(op)
        /\ \A j \in 1..(i - 1) : op_target_node(s[j]) # op_target_node(op)

\* m is s regrouped by target id in order of first appearance: a
\* permutation of s that keeps the ops of one target in their order and
\* puts the targets in the order in which s first names them
Regrouped(m, s) ==
    /\ Len(m) = Len(s)
    /\ \E f \in [1..Len(s) -> 1..Len(s)] :
           /\ \A i, j \in 1..Len(s) : i # j => f[i] # f[j]
           /\ \A i \in 1..Len(s) : m[i] = s[f[i]]
           /\ \A i, j \in 1..Len(s) :
                  i < j =>
                      \/ first_appearance(s, s[f[i]])
                             < first_appearance(s, s[f[j]])
                      \/ /\ op_target_node(s[f[i]]) = op_target_node(s[f[j]])
                         /\ f[i] < f[j]

\* the NodeValues an op carries
op_values(op) ==
    CASE op.op = "Insert" -> {op.value}
      [] op.op = "Update" -> {op.old_value, op.new_value}
      [] OTHER -> {}

\* no op of the script carries a Float(NaN)
NoNaN(ops) ==
    \A i \in 1..Len(ops) :
        \A v \in op_values(ops[i]) : ~(v.tag = "Float" /\ IsNaN(v.w))

\* C16 as stated: for every script S, merge_patches(S, S) has no conflicts
\* and merged_ops is a permutation of S holding each op of S exactly once,
\* regrouped by target id in order of first appearance.
C16_SelfMergeAnyScript ==
    pc = "merged" /\ patch_a = patch_b =>
        /\ merge_result.conflicts = <<>>
        /\ Regrouped(merge_result.merged_ops, patch_a)

\* C16 amended: the same for every script S that carries no Float(NaN).
C16_SelfMergeNoNaN ==
    pc = "merged" /\ patch_a = patch_b /\ NoNaN(patch_a) =>
        /\ merge_result.conflicts = <<>>
        /\ Regrouped(merge_result.merged_ops, patch_a)

\* C16 witness: a script of three ops that names node 1, node 2 and node 1
\* again, merged with itself into a script in another order
C16_Witness ==
    /\ pc = "merged"
    /\ patch_a = patch_b
    /\ NoNaN(patch_a)
    /\ Len(patch_a) = 3
    /\ op_target_node(patch_a[1]) = 1
    /\ op_target_node(patch_a[2]) = 2
    /\ op_target_node(patch_a[3]) = 1
    /\ patch_a[1] # patch_a[3]
    /\ merge_result.merged_ops = <<patch_a[1], patch_a[3], patch_a[2]>>

(***************************************************************************)
(* SpecThreeWay: an ancestor and two sides are built by                    *)
(* add_node_with_value; both sides are diffed against the ancestor, the    *)
(* two scripts are merged and merged_ops is applied to a clone of the      *)
(* ancestor.                                                               *)
(***************************************************************************)
\* ids each of the three trees may issue
MergeMaxId == 2

\* the (kind, label, value) triples the nodes of the three trees are made of
MergeShapes ==
    {<<"Primitive", LabelA, ValNone>>, <<"Primitive", LabelA, Int1>>,
     <<"Primitive", LabelB, ValNone>>}

InitThreeWay ==
    /\ IdleTree
    /\ IdleApply
    /\ IdleDiff
    /\ IdleMerge
    /\ IdleCodec
    /\ IdleGc
    /\ IdleRepo
    /\ pc = "trees"

GrowAncestor ==
    \E shape \in MergeShapes, parent_id \in 0..MergeMaxId :
        /\ pc = "trees"
        /\ old_tree.next_id <= MergeMaxId
        /\ has_node(old_tree, parent_id)
        /\ old_tree' = add_node_with_value(old_tree, shape[1], shape[2],
                                           shape[3], parent_id)
        /\ UNCHANGED <<new_tree, other_tree, treeVars, applyVars, mergeVars,
                       codecVars, gcVars, repoVars, pc>>

GrowSideA ==
    \E shape \in MergeShapes, parent_id \in 0..MergeMaxId :
        /\ pc = "trees"
        /\ new_tree.next_id <= MergeMaxId
        /\ has_node(new_tree, parent_id)
        /\ new_tree' = add_node_with_value(new_tree, shape[1], shape[2],
                                           shape[3], parent_id)
        /\ UNCHANGED <<old_tree, other_tree, treeVars, applyVars, mergeVars,
                       codecVars, gcVars, repoVars, pc>>

GrowSideB ==
    \E shape \in MergeShapes, parent_id \in 0..MergeMaxId :
        /\ pc = "trees"
        /\ other_tree.next_id <= MergeMaxId
        /\ has_node(other_tree, parent_id)
        /\ other_tree' = add_node_with_value(other_tree, shape[1], shape[2],
                                             shape[3], parent_id)
        /\ UNCHANGED <<old_tree, new_tree, treeVars, applyVars, mergeVars,
                       codecVars, gcVars, repoVars, pc>>

DiffSides ==
    /\ pc = "trees"
    /\ patch_a' = diff_trees(old_tree, new_tree)
    /\ patch_b' = diff_trees(old_tree, other_tree)
    /\ pc' = "diffed"
    /\ UNCHANGED <<merge_result, treeVars, applyVars, diffVars, codecVars,
                   gcVars, repoVars>>

MergeSides ==
    /\ pc = "diffed"
    /\ merge_result' = merge_patches(patch_a, patch_b)
    /\ pc' = "merged"
    /\ UNCHANGED <<patch_a, patch_b, treeVars, applyVars, diffVars, codecVars,
                   gcVars, repoVars>>

ApplyMerged ==
    /\ pc = "merged"
    /\ before' = old_tree
    /\ patch' = merge_result.merged_ops
    /\ tree' = apply_patch(old_tree, merge_result.merged_ops)
    /\ pc' = "applied"
    /\ UNCHANGED <<issued, diffVars, mergeVars, codecVars, gcVars, repoVars>>

NextThreeWay ==
    GrowAncestor \/ GrowSideA \/ GrowSideB \/ DiffSides \/ MergeSides
        \/ ApplyMerged

SpecThreeWay == InitThreeWay /\ [][NextThreeWay]_vars

\* MergeResult::is_clean
is_clean(r) == r.conflicts = <<>>

\* the nodes of t that the Delete ops of a script remove: their targets and
\* all that is below them
Doomed(t, ops) ==
    UNION {Range(collect_subtree(t, ops[i].node_id)) :
               i \in {j \in 1..Len(ops) : ops[j].op = "Delete"}}

\* the edit `op` shows in the tree t
Integrated(t, op) ==
    CASE op.op = "Update" ->
             has_node(t, op.node_id)
                 /\ get_node(t, op.node_id).value = op.new_value
      [] op.op = "Relabel" ->
             has_node(t, op.node_id)
                 /\ get_node(t, op.node_id).label = op.new_label
      [] op.op = "Delete" -> ~has_node(t, op.node_id)
      [] op.op = "Insert" ->
             /\ has_node(t, op.parent_id)
             /\ \E c \in Range(get_node(t, op.parent_id).children) :
                    /\ has_node(t, c)
                    /\ get_node(t, c).kind = op.kind
                    /\ get_node(t, c).label = op.label
                    /\ get_node(t, c).value = op.value
                    /\ has_parent(t, c)
                    /\ parent_of(t, c) = op.parent_id
      [] op.op = "Move" ->
             has_node(t, op.new_parent_id)
                 /\ op.node_id \in Range(get_node(t, op.new_parent_id).children)

\* C4 as stated: after a clean merge of A = diff(T0, TA) and B = diff(T0, TB)
\* the tree apply_patch(T0, merged_ops) shows every edit of both sides:
\* every Update / Relabel has its new value / label on its node, every
\* deleted node is absent, every inserted child is under its parent.
C4_CleanMergeIntegratesAll ==
    (pc = "applied" /\ is_clean(merge_result)) =>
        \A op \in Range(patch_a) \cup Range(patch_b) : Integrated(tree, op)

\* C4: after a clean merge of A = diff(T0, TA) and B = diff(T0, TB) the tree
\* apply_patch(T0, merged_ops) shows every edit of both sides whose target
\* is not in a subtree that a Delete of either side removes: such an Update
\* or Relabel has its new value / label on its node and such an inserted
\* child is under its parent; every deleted node is absent.
C4_CleanMergeIntegratesSurvivors ==
    (pc = "applied" /\ is_clean(merge_result)) =>
        \A op \in Range(patch_a) \cup Range(patch_b) :
            (op.op = "Delete"
                 \/ op_target_node(op)
                        \notin Doomed(old_tree, patch_a \o patch_b))
                => Integrated(tree, op)

\* C4 witness: a clean merge where one side updates a node and the other
\* deletes or inserts elsewhere, applied
C4_Witness ==
    /\ pc = "applied"
    /\ is_clean(merge_result)
    /\ \E i \in 1..Len(patch_a) : patch_a[i].op = "Update"
    /\ \E i \in 1..Len(patch_b) : patch_b[i].op \in {"Delete", "Insert"}
    /\ \A op \in Range(patch_a) \cup Range(patch_b) : Integrated(tree, op)

(***************************************************************************)
(* store.rs: SnapshotStore.  The map `snapshots` is a function from the    *)
(* hashes it holds to Snapshot records.                                    *)
(***************************************************************************)
\* store.rs Snapshot
Snapshot(t, parents) == [tree |-> t, parents |-> parents]

\* a ^ b on two u64
xor_u64(a, b) == [i \in 1..8 |-> XorBits(a[i], b[i], 8)]

\* a faulty fold of the parents that takes in the first parent only
commit_hash_first_only(h, parents) ==
    IF parents = <<>> THEN h
    ELSE wrapping_mul_prime(xor_u64(h, Head(parents)))

RECURSIVE commit_hash(_, _)
\* the loop of SnapshotStore::store over the parents, entered with hash h
commit_hash(h, parents) ==
    IF parents = <<>> THEN h
    ELSE commit_hash(wrapping_mul_prime(xor_u64(h, Head(parents))),
                     Tail(parents))

\* the hash SnapshotStore::store returns
store_hash(t, parents) == commit_hash(subtree_hash(t, t.root_id), parents)

\* a faulty store that leaves a key that is present as it is
store_insert_keeping(snapshots, t, parents) ==
    IF store_hash(t, parents) \in DOMAIN snapshots THEN snapshots
    ELSE MapInsert(snapshots, store_hash(t, parents), Snapshot(t, parents))

\* SnapshotStore::store: the map after the call
store_insert(snapshots, t, parents) ==
    MapInsert(snapshots, store_hash(t, parents), Snapshot(t, parents))

\* SnapshotStore::contains
contains(snapshots, hash) == hash \in DOMAIN snapshots

\* SnapshotStore::parents, where the hash is present
parents_of(snapshots, hash) == snapshots[hash].parents

\* SnapshotStore::len
store_len(snapshots) == Cardinality(DOMAIN snapshots)

\* SnapshotStore::all_hashes, as a set: the order of the keys of a HashMap
\* is unspecified, and the sweep does not depend on it
all_hashes(snapshots) == DOMAIN snapshots

\* SnapshotStore::remove
store_remove(snapshots, hash) == MapRemove(snapshots, {hash})

(***************************************************************************)
(* gc.rs: mark, collect_garbage, dry_run.  The state of mark is the pair   *)
(* [reachable, queue].                                                     *)
(***************************************************************************)
\* gc.rs GcResult
GcResult(retained, collected, total_before) ==
    [retained |-> retained, collected |-> collected,
     total_before |-> total_before]

RECURSIVE visit(_, _, _)
\* a loop of mark over hashes (the roots, or the parents of a snapshot): a
\* hash that is stored and not yet reachable is inserted and pushed
visit(snapshots, hashes, m) ==
    IF hashes = <<>> THEN m
    ELSE IF contains(snapshots, Head(hashes))
            /\ Head(hashes) \notin m.reachable
    THEN visit(snapshots, Tail(hashes),
               [reachable |-> m.reachable \cup {Head(hashes)},
                queue |-> Append(m.queue, Head(hashes))])
    ELSE visit(snapshots, Tail(hashes), m)

\* a faulty pop that leaves the hash on the queue
pop_keeping(m) == m

\* queue.pop(): the queue without its last element
pop(m) == [m EXCEPT !.queue = SubSeq(@, 1, Len(@) - 1)]

RECURSIVE walk(_, _)
\* mark: while let Some(hash) = queue.pop()
walk(snapshots, m) ==
    IF m.queue = <<>> THEN m.reachable
    ELSE IF contains(snapshots, m.queue[Len(m.queue)])
    THEN walk(snapshots,
              visit(snapshots, parents_of(snapshots, m.queue[Len(m.queue)]),
                    pop(m)))
    ELSE walk(snapshots, pop(m))

\* a mark that seeds the roots and does not walk the parent links
mark_roots_only(snapshots, root_hashes) ==
    visit(snapshots, root_hashes, [reachable |-> {}, queue |-> <<>>]).reachable

\* gc.rs mark
mark(snapshots, root_hashes) ==
    walk(snapshots,
         visit(snapshots, root_hashes, [reachable |-> {}, queue |-> <<>>]))

\* a faulty sweep that removes a reachable snapshot as well, the least one
sweep_one_more(snapshots, reachable) ==
    MapRemove(snapshots,
              (all_hashes(snapshots) \ reachable)
                  \cup {h \in reachable \cap all_hashes(snapshots) :
                            \A g \in reachable \cap all_hashes(snapshots) :
                                h = g \/ \E i \in 1..8 :
                                    /\ h[i] < g[i]
                                    /\ \A k \in 1..(i - 1) : h[k] = g[k]})

\* the sweep of collect_garbage: the map once every hash that is not
\* reachable has been removed
sweep(snapshots, reachable) ==
    MapRemove(snapshots, all_hashes(snapshots) \ reachable)

\* the sweep of collect_garbage: the number of hashes it removes
swept(snapshots, reachable) ==
    Cardinality(all_hashes(snapshots) \ reachable)

\* a collect_garbage that counts as collected every hash that is no root
collect_garbage_counting_roots(snapshots, root_hashes) ==
    [store |-> sweep(snapshots, mark(snapshots, root_hashes)),
     result |->
         GcResult(store_len(snapshots)
                      - swept(snapshots, Range(root_hashes)),
                  swept(snapshots, Range(root_hashes)),
                  store_len(snapshots))]

\* gc.rs collect_garbage: the store after the call and the result
collect_garbage(snapshots, root_hashes) ==
    [store |-> sweep(snapshots, mark(snapshots, root_hashes)),
     result |->
         GcResult(store_len(snapshots)
                      - swept(snapshots, mark(snapshots, root_hashes)),
                  swept(snapshots, mark(snapshots, root_hashes)),
                  store_len(snapshots))]

\* a faulty dry_run that takes the stored roots alone as retained
dry_run_roots_only(snapshots, root_hashes) ==
    GcResult(Cardinality(mark_roots_only(snapshots, root_hashes)),
             store_len(snapshots)
                 - Cardinality(mark_roots_only(snapshots, root_hashes)),
             store_len(snapshots))

\* gc.rs dry_run
dry_run(snapshots, root_hashes) ==
    GcResult(Cardinality(mark(snapshots, root_hashes)),
             store_len(snapshots) - Cardinality(mark(snapshots, root_hashes)),
             store_len(snapshots))

(***************************************************************************)
(* SpecGc: snapshots are stored and removed, then the collector is run or  *)
(* dry-run on the store with a list of roots.  A store that a collection   *)
(* leaves is a store that calls of remove leave as well, so the runs stop  *)
(* at the collection without losing any store the collector can be given.  *)
(***************************************************************************)
\* calls of store in a run
MaxStores == 3
\* parents a snapshot is stored with
MaxParents == 2
\* roots handed to the collector
MaxRoots == 2

\* a hash no snapshot of the model has (0xDEAD)
AbsentHash == <<173, 222, 0, 0, 0, 0, 0, 0>>

\* the trees stored: a bare root, and a root with one child
GcTrees == {AstTree_new, add_node(AstTree_new, "Primitive", LabelA, 0)}

\* the sequences of at most n elements of S
SeqsUpTo(S, n) == UNION {[1..k -> S] : k \in 0..n}

InitGc ==
    /\ IdleTree
    /\ IdleApply
    /\ IdleDiff
    /\ IdleMerge
    /\ IdleCodec
    /\ IdleGc
    /\ IdleRepo
    /\ pc = "store"

\* store(tree, parents), the parents taken among the hashes stored
Store ==
    \E t \in GcTrees, parents \in SeqsUpTo(DOMAIN store, MaxParents) :
        /\ pc = "store"
        /\ Len(stored) < MaxStores
        /\ store' = store_insert(store, t, parents)
        /\ stored' = Append(stored, store_hash(t, parents))
        /\ UNCHANGED <<marking, store_calls, gc_first, store_before, roots,
                       gc_result, treeVars, applyVars, diffVars, mergeVars,
                       codecVars, repoVars, pc>>

\* remove(hash): the snapshots that name it as a parent keep doing so
Remove ==
    \E hash \in DOMAIN store \cup {AbsentHash} :
        /\ pc = "store"
        /\ store' = store_remove(store, hash)
        /\ UNCHANGED <<marking, store_calls, gc_first, stored, store_before,
                       roots, gc_result, treeVars, applyVars, diffVars,
                       mergeVars, codecVars, repoVars, pc>>

\* collect_garbage(store, roots), the roots taken among the hashes ever
\* stored and one never stored
CollectGarbage ==
    \E root_hashes \in SeqsUpTo(Range(stored) \cup {AbsentHash}, MaxRoots) :
        /\ pc = "store"
        /\ store_before' = store
        /\ roots' = root_hashes
        /\ store' = collect_garbage(store, root_hashes).store
        /\ gc_result' = collect_garbage(store, root_hashes).result
        /\ pc' = "collected"
        /\ UNCHANGED <<marking, store_calls, gc_first, stored, treeVars,
                       applyVars, diffVars, mergeVars, codecVars, repoVars>>

\* dry_run(store, roots)
DryRun ==
    \E root_hashes \in SeqsUpTo(Range(stored) \cup {AbsentHash}, MaxRoots) :
        /\ pc = "store"
        /\ store_before' = store
        /\ roots' = root_hashes
        /\ gc_result' = dry_run(store, root_hashes)
        /\ pc' = "dry_run"
        /\ UNCHANGED <<marking, store_calls, gc_first, store, stored, treeVars,
                       applyVars, diffVars, mergeVars, codecVars, repoVars>>

NextGc == Store \/ Remove \/ CollectGarbage \/ DryRun

SpecGc == InitGc /\ [][NextGc]_vars

\* the hashes reachable from S in one step more: S and the parents, stored
\* in `snapshots`, of the hashes of S
Step(snapshots, S) ==
    S \cup {h \in DOMAIN snapshots :
               \E g \in S : h \in Range(snapshots[g].parents)}

RECURSIVE Closure(_, _)
\* the least set that holds S and is closed under Step
Closure(snapshots, S) ==
    IF Step(snapshots, S) = S THEN S
    ELSE Closure(snapshots, Step(snapshots, S))

\* the hashes reachable from a root that is stored, by parent links through
\* stored snapshots
Reachable(snapshots, root_hashes) ==
    Closure(snapshots, Range(root_hashes) \cap DOMAIN snapshots)

\* C9: after collect_garbage(store, roots) a hash is in the store if and
\* only if it was there before and is reachable from a root that was in the
\* store, by parent links through snapshots that were in the store; the
\* snapshots kept are unchanged.  Roots that are not stored and roots given
\* twice count for nothing: only the set of the stored roots matters.
C9_KeptIffReachable ==
    pc = "collected" =>
        /\ DOMAIN store = Reachable(store_before, roots)
        /\ \A h \in DOMAIN store : store[h] = store_before[h]

\* C9 witness: a collection given a root twice, or a root that is not
\* stored, that kept a snapshot which is no root and removed another
C9_Witness ==
    /\ pc = "collected"
    /\ \/ Len(roots) = 2 /\ roots[1] = roots[2]
       \/ \E i \in 1..Len(roots) : roots[i] \notin DOMAIN store_before
    /\ \E h \in DOMAIN store : h \notin Range(roots)
    /\ \E h \in DOMAIN store_before : h \notin DOMAIN store

\* C10: the result of collect_garbage and of dry_run has
\* retained + collected = total_before, total_before being the number of
\* snapshots before the call, and after collect_garbage the len of the
\* store is retained.
C10_CountsAddUp ==
    pc \in {"collected", "dry_run"} =>
        /\ gc_result.retained + gc_result.collected = gc_result.total_before
        /\ gc_result.total_before = store_len(store_before)
        /\ gc_result.retained >= 0
        /\ gc_result.collected >= 0
        /\ (pc = "collected" => store_len(store) = gc_result.retained)

\* C10 witness: a collection that kept some snapshots and removed others
C10_Witness ==
    /\ pc = "collected"
    /\ gc_result.retained > 0
    /\ gc_result.collected > 0
    /\ gc_result.total_before = 3

\* C21: dry_run(store, roots) returns the retained, collected and
\* total_before that collect_garbage(store, roots) returns on that store,
\* and leaves the store as it was: same hashes, trees and parent lists.
C21_DryRunAgrees ==
    pc = "dry_run" =>
        /\ gc_result = collect_garbage(store_before, roots).result
        /\ store = store_before

\* C21 witness: a dry run on a store from which a collection with these
\* roots removes a snapshot and keeps one that is no root
C21_Witness ==
    /\ pc = "dry_run"
    /\ gc_result.collected > 0
    /\ gc_result.retained > Cardinality(Range(roots))
    /\ store_len(store) = gc_result.total_before

(***************************************************************************)
(* SpecGcTwice: as SpecGc, and the collector is run once more with the     *)
(* same roots on the store it left.                                        *)
(***************************************************************************)
CollectAgain ==
    /\ pc = "collected"
    /\ gc_first' = [store |-> store, result |-> gc_result]
    /\ store' = collect_garbage(store, roots).store
    /\ gc_result' = collect_garbage(store, roots).result
    /\ pc' = "collected_again"
    /\ UNCHANGED <<marking, store_calls, stored, store_before, roots, treeVars,
                   applyVars, diffVars, mergeVars, codecVars, repoVars>>

NextGcTwice == Store \/ Remove \/ CollectGarbage \/ CollectAgain

SpecGcTwice == InitGc /\ [][NextGcTwice]_vars

\* C22: a second collect_garbage with the same roots collects nothing: it
\* returns collected = 0 and the retained of the first call, the store is
\* the same after both calls, and the retained snapshots have the trees and
\* parent lists they had before the first call.
C22_SecondCollectsNothing ==
    pc = "collected_again" =>
        /\ gc_result.collected = 0
        /\ gc_result.retained = gc_first.result.retained
        /\ store = gc_first.store
        /\ \A h \in DOMAIN store :
               /\ h \in DOMAIN store_before
               /\ store[h].tree = store_before[h].tree
               /\ store[h].parents = store_before[h].parents

\* C22 witness: the first collection removed a snapshot and kept one with
\* a parent; the second ran on what was left
C22_Witness ==
    /\ pc = "collected_again"
    /\ gc_first.result.collected > 0
    /\ \E h \in DOMAIN store : store[h].parents # <<>>

(***************************************************************************)
(* SpecMark: a store is built by store, with parent lists that name the    *)
(* snapshot itself, each other, and hashes that are not stored; then mark  *)
(* runs on it one iteration of its loop at a time.                         *)
(***************************************************************************)
\* the number of snapshots stored before mark runs
MaxLinks == 3

\* store(AstTree::new(), [0x43cbb82bf3b7c05d, 0x5e1f]) returns 0x5e1f: the
\* first parent is h ^ ((x ^ y / m) / m) for the hash h of the tree, second
\* parent x and wanted hash y, with / m the inverse of the wrapping
\* multiplication by 0x100000001b3
SelfHash == <<31, 94, 0, 0, 0, 0, 0, 0>>
SelfParents == <<<<93, 192, 183, 243, 43, 184, 203, 67>>, SelfHash>>

\* likewise store(AstTree::new(), [0xb3afa0f6cd26f0e4, 0xb]) returns 0xa and
\* store(AstTree::new(), [0xf7cf2775f6972a72, 0xa]) returns 0xb
CycleHashA == <<10, 0, 0, 0, 0, 0, 0, 0>>
CycleHashB == <<11, 0, 0, 0, 0, 0, 0, 0>>
CycleParentsA == <<<<228, 240, 38, 205, 246, 160, 175, 179>>, CycleHashB>>
CycleParentsB == <<<<114, 42, 151, 246, 117, 39, 207, 247>>, CycleHashA>>

\* the parent lists stored
LinkedParents(snapshots) ==
    {<<>>, <<AbsentHash>>, SelfParents, CycleParentsA, CycleParentsB}
        \cup {<<h>> : h \in DOMAIN snapshots}

\* mark, "Seed with roots"
mark_seed(snapshots, root_hashes) ==
    visit(snapshots, root_hashes, [reachable |-> {}, queue |-> <<>>])

\* mark, one iteration of `while let Some(hash) = queue.pop()`
mark_step(snapshots, m) ==
    IF contains(snapshots, m.queue[Len(m.queue)])
    THEN visit(snapshots, parents_of(snapshots, m.queue[Len(m.queue)]),
               pop(m))
    ELSE pop(m)

\* the marking state m with the hashes pushed since the queue was q added
\* to the pushes recorded
with_pushes(m, q, pushed) ==
    [reachable |-> m.reachable, queue |-> m.queue,
     pushed |-> pushed \o SubSeq(m.queue, Len(q) + 1, Len(m.queue))]

InitMark ==
    /\ IdleTree
    /\ IdleApply
    /\ IdleDiff
    /\ IdleMerge
    /\ IdleCodec
    /\ IdleGc
    /\ IdleRepo
    /\ pc = "links"

StoreLinked ==
    \E parents \in LinkedParents(store) :
        /\ pc = "links"
        /\ store_len(store) < MaxLinks
        /\ store' = store_insert(store, AstTree_new, parents)
        /\ UNCHANGED <<marking, store_calls, gc_first, stored, store_before,
                       roots, gc_result, treeVars, applyVars, diffVars,
                       mergeVars, codecVars, repoVars, pc>>

MarkSeed ==
    \E root_hashes \in SeqsUpTo(DOMAIN store \cup {AbsentHash}, MaxRoots) :
        /\ pc = "links"
        /\ roots' = root_hashes
        /\ marking' = with_pushes(mark_seed(store, root_hashes), <<>>, <<>>)
        /\ pc' = "marking"
        /\ UNCHANGED <<store, store_calls, gc_first, stored, store_before,
                       gc_result, treeVars, applyVars, diffVars, mergeVars,
                       codecVars, repoVars>>

MarkStep ==
    /\ pc = "marking"
    /\ marking.queue # <<>>
    /\ marking' =
           with_pushes(mark_step(store, [reachable |-> marking.reachable,
                                         queue |-> marking.queue]),
                       pop([reachable |-> marking.reachable,
                            queue |-> marking.queue]).queue,
                       marking.pushed)
    /\ UNCHANGED <<store, store_calls, gc_first, stored, store_before, roots,
                   gc_result, treeVars, applyVars, diffVars, mergeVars,
                   codecVars, repoVars, pc>>

\* the queue is empty: mark returns `reachable`
MarkDone ==
    /\ pc = "marking"
    /\ marking.queue = <<>>
    /\ pc' = "marked"
    /\ UNCHANGED <<marking, store, store_calls, gc_first, stored,
                   store_before, roots, gc_result, treeVars, applyVars,
                   diffVars, mergeVars, codecVars, repoVars>>

NextMark == StoreLinked \/ MarkSeed \/ MarkStep \/ MarkDone

\* mark runs in one thread: an iteration that can be made is made
SpecMark ==
    InitMark /\ [][NextMark]_vars /\ WF_vars(MarkStep) /\ WF_vars(MarkDone)

\* what holds while mark runs: no hash is pushed twice, every hash pushed
\* or reachable is a hash of the store, and what mark returns is what the
\* loop run to its end gives
mark_bounded ==
    pc \in {"marking", "marked"} =>
        /\ \A i, j \in 1..Len(marking.pushed) :
               marking.pushed[i] = marking.pushed[j] => i = j
        /\ Range(marking.pushed) \subseteq all_hashes(store)
        /\ marking.reachable \subseteq all_hashes(store)
        /\ Range(marking.queue) \subseteq marking.reachable
        /\ pc = "marked" => marking.reachable = mark(store, roots)

\* C38: mark terminates for every store and root list, also where the
\* parent links hold a self-reference, a cycle or hashes that are not
\* stored: every hash of the store is put on the work list at most once,
\* and the reachable set is a subset of the hashes of the store.
C38_MarkTerminates ==
    /\ [](mark_bounded)
    /\ (pc = "marking") ~> (pc = "marked")

\* C38 witness: mark has returned on a store with a snapshot that is its
\* own parent, two that are each other's parent, and parents that are not
\* stored; all three snapshots are reachable from the one root
C38_Witness ==
    /\ pc = "marked"
    /\ all_hashes(store) = {SelfHash, CycleHashA, CycleHashB}
    /\ SelfHash \in Range(parents_of(store, SelfHash))
    /\ CycleHashB \in Range(parents_of(store, CycleHashA))
    /\ CycleHashA \in Range(parents_of(store, CycleHashB))
    /\ Len(roots) = 2
    /\ marking.reachable = all_hashes(store)
    /\ Len(marking.pushed) = 3

(***************************************************************************)
(* commit.rs: Commit, Branch, Repository.  A Repository is the record      *)
(* [store, commits, branches, current_branch]; store is the snapshots map  *)
(* of its SnapshotStore, commits and branches are the two BTreeMaps.       *)
(* Strings are their UTF-8 bytes.                                          *)
(***************************************************************************)
\* "main", "system", "initial commit"
StrMain == <<109, 97, 105, 110>>
StrSystem == <<115, 121, 115, 116, 101, 109>>
StrInitialCommit ==
    <<105, 110, 105, 116, 105, 97, 108, 32, 99, 111, 109, 109, 105, 116>>
\* "merge branch '{}'", the template handed to alloc_format, and "'{}'"
StrMergeTemplate ==
    <<109, 101, 114, 103, 101, 32, 98, 114, 97, 110, 99, 104, 32, 39, 123,
      125, 39>>
StrPlaceholder == <<39, 123, 125, 39>>

\* Hash 0, the head_hash of a repository whose current branch is missing
HashZero == <<0, 0, 0, 0, 0, 0, 0, 0>>

Commit_new(hash, parents, message, author, ops) ==
    [hash |-> hash, parents |-> parents, message |-> message,
     author |-> author, patch |-> ops]

Branch_new(name, head) == [name |-> name, head |-> head]

\* str::find: the first position (from 0) at which pat occurs in s, or -1
find(s, pat) ==
    LET hits == {i \in 0..(Len(s) - Len(pat)) :
                     SubSeq(s, i + 1, i + Len(pat)) = pat}
    IN  IF hits = {} THEN -1
        ELSE CHOOSE i \in hits : \A j \in hits : i <= j

\* String::replace_range(from..to, arg), positions from 0
replace_range(s, from, to, arg) ==
    SubSeq(s, 1, from) \o arg \o SubSeq(s, to + 1, Len(s))

\* alloc_format(template, arg)
alloc_format(template, arg) ==
    IF find(template, StrPlaceholder) < 0 THEN template
    ELSE replace_range(template, find(template, StrPlaceholder),
                       find(template, StrPlaceholder) + 4, arg)

\* a faulty new: the current branch is "master", the branch made is "main"
Repository_new_master ==
    [store |-> store_insert(<<>>, AstTree_new, <<>>),
     commits |->
         (store_hash(AstTree_new, <<>>) :>
              Commit_new(store_hash(AstTree_new, <<>>), <<>>,
                         StrInitialCommit, StrSystem, <<>>)),
     branches |->
         (StrMain :> Branch_new(StrMain, store_hash(AstTree_new, <<>>))),
     current_branch |-> <<109, 97, 115, 116, 101, 114>>]

\* Repository::new
Repository_new ==
    [store |-> store_insert(<<>>, AstTree_new, <<>>),
     commits |->
         (store_hash(AstTree_new, <<>>) :>
              Commit_new(store_hash(AstTree_new, <<>>), <<>>,
                         StrInitialCommit, StrSystem, <<>>)),
     branches |->
         (StrMain :> Branch_new(StrMain, store_hash(AstTree_new, <<>>))),
     current_branch |-> StrMain]

\* Repository::head_hash
head_hash(r) ==
    IF r.current_branch \in DOMAIN r.branches
    THEN r.branches[r.current_branch].head
    ELSE HashZero

\* SnapshotStore::get(hash).is_some()
store_has(snapshots, hash) == hash \in DOMAIN snapshots

\* SnapshotStore::get, where the hash is present
store_get(snapshots, hash) == snapshots[hash].tree

\* Repository::head_tree().is_some()
has_head_tree(r) == store_has(r.store, head_hash(r))

\* Repository::head_tree, where it is present
head_tree(r) == store_get(r.store, head_hash(r))

\* Repository::get_commit(hash).is_some()
has_commit(r, hash) == hash \in DOMAIN r.commits

\* Repository::get_commit, where it is present
get_commit(r, hash) == r.commits[hash]

\* Repository::branch_names
branch_names(r) == DOMAIN r.branches

\* Repository::commit_count
commit_count(r) == Cardinality(DOMAIN r.commits)

\* the patch that commit records: the diff from the parent's tree, where the
\* store holds it
commit_patch(r, t) ==
    IF store_has(r.store, head_hash(r))
    THEN diff_trees(store_get(r.store, head_hash(r)), t)
    ELSE <<>>

\* the hash that commit returns
commit_ret(r, t) == store_hash(t, <<head_hash(r)>>)

\* a faulty advance: every branch is moved to the new commit
advance_all(r, hash) ==
    [b \in DOMAIN r.branches |-> Branch_new(r.branches[b].name, hash)]

\* "Advance branch" in commit: the branches after hash became the head
advance(r, hash) ==
    IF r.current_branch \in DOMAIN r.branches
    THEN [r.branches EXCEPT ![r.current_branch].head = hash]
    ELSE r.branches

\* a faulty commit that stores the snapshot and makes no commit record
commit_without_record(r, t, message, author, parent_hash, hash) ==
    [store |-> MapInsert(r.store, hash, Snapshot(t, <<parent_hash>>)),
     commits |-> r.commits,
     branches |-> advance(r, hash),
     current_branch |-> r.current_branch]

\* the body of Repository::commit after parent_hash and hash are known
commit_with(r, t, message, author, parent_hash, hash) ==
    [store |-> MapInsert(r.store, hash, Snapshot(t, <<parent_hash>>)),
     commits |->
         MapInsert(r.commits, hash,
                   Commit_new(hash, <<parent_hash>>, message, author,
                              commit_patch(r, t))),
     branches |-> advance(r, hash),
     current_branch |-> r.current_branch]

\* Repository::commit: the repository after the call
Repository_commit(r, t, message, author) ==
    commit_with(r, t, message, author, head_hash(r), commit_ret(r, t))

\* a faulty create_branch: a branch that exists is left where it points
create_branch_keeping(r, name) ==
    IF name \in DOMAIN r.branches THEN r
    ELSE [r EXCEPT !.branches =
                       MapInsert(r.branches, name,
                                 Branch_new(name, r.branches[r.current_branch].head))]

\* Repository::create_branch
Repository_create_branch(r, name) ==
    [r EXCEPT !.branches =
                  MapInsert(r.branches, name, Branch_new(name, head_hash(r)))]

\* what Repository::checkout returns
checkout_ret(r, name) == name \in DOMAIN r.branches

\* a faulty checkout: the name is made current whether or not it is a branch
checkout_any(r, name) == [r EXCEPT !.current_branch = name]

\* Repository::checkout: the repository after the call
Repository_checkout(r, name) ==
    IF checkout_ret(r, name) THEN [r EXCEPT !.current_branch = name] ELSE r

\* Repository::merge gets past all its `?`: the other branch, the commit of
\* HEAD, its first parent, and the three snapshots are present
merge_some(r, other_branch) ==
    /\ other_branch \in DOMAIN r.branches
    /\ has_commit(r, head_hash(r))
    /\ get_commit(r, head_hash(r)).parents # <<>>
    /\ store_has(r.store, Head(get_commit(r, head_hash(r)).parents))
    /\ store_has(r.store, head_hash(r))
    /\ store_has(r.store, r.branches[other_branch].head)

\* ancestor_tree in Repository::merge
ancestor_tree(r) ==
    store_get(r.store, Head(get_commit(r, head_hash(r)).parents))

\* merge_result in Repository::merge
merge_ret(r, other_branch) ==
    merge_patches(
        diff_trees(ancestor_tree(r), store_get(r.store, head_hash(r))),
        diff_trees(ancestor_tree(r),
                   store_get(r.store, r.branches[other_branch].head)))

\* result_tree in Repository::merge
result_tree(r, ops) == apply_patch(ancestor_tree(r), ops)

\* a faulty merge that, where HEAD has no parent, commits the tree of the
\* other branch
merge_onto_rootless(r, other_branch) ==
    IF /\ other_branch \in DOMAIN r.branches
       /\ has_commit(r, head_hash(r))
       /\ get_commit(r, head_hash(r)).parents = <<>>
       /\ store_has(r.store, r.branches[other_branch].head)
    THEN Repository_commit(
             r, store_get(r.store, r.branches[other_branch].head),
             alloc_format(StrMergeTemplate, other_branch), StrSystem)
    ELSE IF merge_some(r, other_branch)
            /\ is_clean(merge_ret(r, other_branch))
    THEN Repository_commit(
             r, result_tree(r, merge_ret(r, other_branch).merged_ops),
             alloc_format(StrMergeTemplate, other_branch), StrSystem)
    ELSE r

\* a faulty merge that commits the merged ops whether or not conflicts are
\* left
merge_committing_conflicts(r, other_branch) ==
    IF merge_some(r, other_branch)
    THEN Repository_commit(
             r, result_tree(r, merge_ret(r, other_branch).merged_ops),
             alloc_format(StrMergeTemplate, other_branch), StrSystem)
    ELSE r

\* Repository::merge: the repository after the call
Repository_merge(r, other_branch) ==
    IF merge_some(r, other_branch) /\ is_clean(merge_ret(r, other_branch))
    THEN Repository_commit(
             r, result_tree(r, merge_ret(r, other_branch).merged_ops),
             alloc_format(StrMergeTemplate, other_branch), StrSystem)
    ELSE r

\* Repository::diff(from, to).is_some()
diff_some(r, from, to) == store_has(r.store, from) /\ store_has(r.store, to)

\* Repository::diff, where it is present
Repository_diff(r, from, to) ==
    diff_trees(store_get(r.store, from), store_get(r.store, to))

(***************************************************************************)
(* SpecRepo: a Repository driven by commit, create_branch, checkout and    *)
(* merge.                                                                  *)
(***************************************************************************)
\* commit is called while the repository holds at most MaxCommits commits, and
\* merge while it holds at most one more
MaxCommits == 3

\* "dev", and "x", a name no branch ever has
StrDev == <<100, 101, 118>>
StrX == <<120>>
BranchNames == {StrMain, StrDev}
CalledNames == BranchNames \cup {StrX}

\* the trees committed: root -> [a, b]; the same with a value on a, or on b;
\* root -> [a]
TreeAB ==
    add_node(add_node(AstTree_new, "Primitive", LabelA, 0), "Primitive",
             LabelB, 0)
TreeA1B ==
    add_node(add_node_with_value(AstTree_new, "Primitive", LabelA, Int1, 0),
             "Primitive", LabelB, 0)
TreeAB1 ==
    add_node_with_value(add_node(AstTree_new, "Primitive", LabelA, 0),
                        "Primitive", LabelB, Int1, 0)
TreeA == add_node(AstTree_new, "Primitive", LabelA, 0)

\* "m1", "m2", "alice", "bob"
StrM1 == <<109, 49>>
StrM2 == <<109, 50>>
StrAlice == <<97, 108, 105, 99, 101>>
StrBob == <<98, 111, 98>>

\* the calls of commit made: (tree, message, author)
Commits ==
    {<<TreeAB, StrM1, StrAlice>>, <<TreeA1B, StrM1, StrAlice>>,
     <<TreeAB1, StrM2, StrBob>>, <<TreeA, StrM2, StrBob>>}

InitRepo ==
    /\ IdleTree
    /\ IdleApply
    /\ IdleDiff
    /\ IdleMerge
    /\ IdleCodec
    /\ IdleGc
    /\ repo = Repository_new
    /\ pc = "repo"

Commit ==
    \E c \in Commits :
        /\ pc = "repo"
        /\ commit_count(repo) <= MaxCommits
        /\ repo' = Repository_commit(repo, c[1], c[2], c[3])
        /\ UNCHANGED <<treeVars, applyVars, diffVars, mergeVars, codecVars,
                       gcVars, pc>>

CreateBranch ==
    \E name \in BranchNames :
        /\ pc = "repo"
        /\ repo' = Repository_create_branch(repo, name)
        /\ UNCHANGED <<treeVars, applyVars, diffVars, mergeVars, codecVars,
                       gcVars, pc>>

Checkout ==
    \E name \in CalledNames :
        /\ pc = "repo"
        /\ repo' = Repository_checkout(repo, name)
        /\ UNCHANGED <<treeVars, applyVars, diffVars, mergeVars, codecVars,
                       gcVars, pc>>

MergeBranch ==
    \E name \in CalledNames :
        /\ pc = "repo"
        /\ commit_count(repo) <= MaxCommits + 1
        /\ repo' = Repository_merge(repo, name)
        /\ UNCHANGED <<treeVars, applyVars, diffVars, mergeVars, codecVars,
                       gcVars, pc>>

NextRepo ==
    \/ Commit
    \/ CreateBranch
    \/ Checkout
    \/ MergeBranch

SpecRepo == InitRepo /\ [][NextRepo]_vars

\* C11: commits are immutable.  No call of commit, create_branch, checkout
\* or merge changes the record of a commit that exists (its parents, message,
\* author and patch) or the tree of the snapshot stored under its hash; so a
\* commit on one branch never changes the head_tree of another branch.
C11_CommitsImmutable ==
    [][\A h \in DOMAIN repo.commits :
           /\ has_commit(repo', h)
           /\ get_commit(repo', h) = get_commit(repo, h)
           /\ store_has(repo.store, h) =>
                  /\ store_has(repo'.store, h)
                  /\ store_get(repo'.store, h) = store_get(repo.store, h)]_vars

\* the heads of the branches other than the current one
other_heads(r) ==
    [b \in DOMAIN r.branches \ {r.current_branch} |-> r.branches[b].head]

\* what C12 says of a call commit(t, message, author) that took r to r2 and
\* returned h
commit_post(r, r2, t, message, author, h) ==
    /\ head_hash(r2) = h
    /\ has_head_tree(r2)
    /\ head_tree(r2) = t
    /\ has_commit(r2, h)
    /\ get_commit(r2, h).parents = <<head_hash(r)>>
    /\ get_commit(r2, h).message = message
    /\ get_commit(r2, h).author = author
    /\ r2.current_branch = r.current_branch
    /\ other_heads(r2) = other_heads(r)

\* C12: after commit(tree, message, author) returns h, head_hash() is h,
\* head_tree() is the committed tree, get_commit(h) has parents [HEAD before
\* the call] and the message and author given, current_branch is unchanged
\* and so are the heads of all other branches.  Stated of every call of
\* commit that SpecRepo makes, in the state it is made in.
C12_CommitPost ==
    pc = "repo" /\ commit_count(repo) <= MaxCommits =>
        \A c \in Commits :
            \A r2 \in {Repository_commit(repo, c[1], c[2], c[3])},
               h \in {commit_ret(repo, c[1])} :
                commit_post(repo, r2, c[1], c[2], c[3], h)

\* a commit made on dev while main points elsewhere: two branches with
\* different heads, dev current, its head a commit by "bob" whose parent is
\* a commit other than the initial one
C12_Witness ==
    /\ pc = "repo"
    /\ repo.current_branch = StrDev
    /\ StrDev \in DOMAIN repo.branches
    /\ repo.branches[StrDev].head # repo.branches[StrMain].head
    /\ has_commit(repo, head_hash(repo))
    /\ get_commit(repo, head_hash(repo)).author = StrBob
    /\ get_commit(repo, head_hash(repo)).parents # <<>>
    /\ Head(get_commit(repo, head_hash(repo)).parents)
           # store_hash(AstTree_new, <<>>)
    /\ head_tree(repo) = TreeAB1

\* C13: every call of commit increases commit_count() by exactly one and
\* changes head_hash(), in every reachable state of the repository, those
\* after create_branch and checkout included.
C13_CommitCounts ==
    pc = "repo" /\ commit_count(repo) <= MaxCommits =>
        \A c \in Commits :
            \A r2 \in {Repository_commit(repo, c[1], c[2], c[3])} :
                /\ commit_count(r2) = commit_count(repo) + 1
                /\ head_hash(r2) # head_hash(repo)

\* merge(other_branch) returns a clean MergeResult
merge_clean(r, other_branch) ==
    merge_some(r, other_branch) /\ is_clean(merge_ret(r, other_branch))

\* C14: a clean merge(other) takes the first parent of HEAD as ancestor,
\* merges diff(ancestor, HEAD tree) with diff(ancestor, other head tree) and
\* makes exactly one new commit on the current branch, whose parent is the
\* HEAD before and whose tree is apply_patch(ancestor, merged_ops); the head
\* of the other branch and current_branch are unchanged.  The other branch
\* is taken to be a branch other than the current one.
C14_CleanMergeCommits ==
    pc = "repo" /\ commit_count(repo) <= MaxCommits + 1 =>
        \A name \in CalledNames \ {repo.current_branch} :
            merge_clean(repo, name) =>
                \A r2 \in {Repository_merge(repo, name)} :
                    /\ commit_count(r2) = commit_count(repo) + 1
                    /\ DOMAIN r2.commits \ DOMAIN repo.commits
                           = {head_hash(r2)}
                    /\ get_commit(r2, head_hash(r2)).parents
                           = <<head_hash(repo)>>
                    /\ head_tree(r2)
                           = result_tree(repo,
                                         merge_ret(repo, name).merged_ops)
                    /\ r2.branches[name].head = repo.branches[name].head
                    /\ r2.current_branch = repo.current_branch

\* the head of every branch
heads(r) == [b \in DOMAIN r.branches |-> r.branches[b].head]

\* C23: checkout(name) returns true and makes name the current branch if
\* and only if a branch of that name exists; otherwise it returns false and
\* current_branch is as before.  In both cases the commits, the snapshots
\* and the head of every branch are as before.
C23_Checkout ==
    pc = "repo" =>
        \A name \in CalledNames :
            \A r2 \in {Repository_checkout(repo, name)} :
                /\ checkout_ret(repo, name) <=> name \in branch_names(repo)
                /\ r2.current_branch =
                       IF name \in branch_names(repo) THEN name
                       ELSE repo.current_branch
                /\ r2.commits = repo.commits
                /\ r2.store = repo.store
                /\ heads(r2) = heads(repo)

\* C23 witness: dev was checked out and committed on, main was checked out
\* again, and "x" is no branch
C23_Witness ==
    /\ pc = "repo"
    /\ repo.current_branch = StrMain
    /\ branch_names(repo) = {StrMain, StrDev}
    /\ repo.branches[StrMain].head = store_hash(AstTree_new, <<>>)
    /\ repo.branches[StrDev].head # store_hash(AstTree_new, <<>>)
    /\ ~checkout_ret(repo, StrX)

\* C24: create_branch(name) points name at the current HEAD, replacing a
\* branch of that name if there is one; current_branch, the heads of the
\* other branches, the commits and the snapshots are as before.
C24_CreateBranch ==
    pc = "repo" =>
        \A name \in BranchNames :
            \A r2 \in {Repository_create_branch(repo, name)} :
                /\ branch_names(r2) = branch_names(repo) \cup {name}
                /\ r2.branches[name].head = head_hash(repo)
                /\ r2.branches[name].name = name
                /\ r2.current_branch = repo.current_branch
                /\ \A b \in branch_names(repo) \ {name} :
                       r2.branches[b] = repo.branches[b]
                /\ r2.commits = repo.commits
                /\ r2.store = repo.store

\* C24 witness: both branches point at one commit made on the initial one,
\* and there is a third commit, on which one of them stood before it was
\* created again
C24_Witness ==
    /\ pc = "repo"
    /\ branch_names(repo) = {StrMain, StrDev}
    /\ repo.branches[StrMain].head = repo.branches[StrDev].head
    /\ has_commit(repo, head_hash(repo))
    /\ get_commit(repo, head_hash(repo)).parents
           = <<store_hash(AstTree_new, <<>>)>>
    /\ commit_count(repo) = 3

\* "merge branch " and "'"
StrMergeBranch == <<109, 101, 114, 103, 101, 32, 98, 114, 97, 110, 99, 104, 32>>
StrQuote == <<39>>

\* C27: the commit made by a clean merge(name) has the author "system" and
\* the message "merge branch '<name>'", the name of the branch inside single
\* quotes.
C27_MergeMessage ==
    pc = "repo" /\ commit_count(repo) <= MaxCommits + 1 =>
        \A name \in CalledNames :
            merge_clean(repo, name) =>
                \A r2 \in {Repository_merge(repo, name)} :
                    /\ has_commit(r2, head_hash(r2))
                    /\ get_commit(r2, head_hash(r2)).author = StrSystem
                    /\ get_commit(r2, head_hash(r2)).message
                           = StrMergeBranch \o StrQuote \o name \o StrQuote

\* the part of C27 that holds: the author is "system" and the message is
\* "merge branch <name>", without the quotes
C27_MergeMessageUnquoted ==
    pc = "repo" /\ commit_count(repo) <= MaxCommits + 1 =>
        \A name \in CalledNames :
            merge_clean(repo, name) =>
                \A r2 \in {Repository_merge(repo, name)} :
                    /\ has_commit(r2, head_hash(r2))
                    /\ get_commit(r2, head_hash(r2)).author = StrSystem
                    /\ get_commit(r2, head_hash(r2)).message
                           = StrMergeBranch \o name

RECURSIVE content(_, _)
\* what the tree t holds at and below the node id, the ids left out: kind,
\* label, value and the same of the children in order
content(t, id) ==
    <<get_node(t, id).kind, get_node(t, id).label, get_node(t, id).value,
      [i \in 1..Len(get_node(t, id).children) |->
           content(t, get_node(t, id).children[i])]>>

\* what C29 says of the commit record under h
patch_is_diff(r, h) ==
    IF get_commit(r, h).parents = <<>> THEN get_commit(r, h).patch = <<>>
    ELSE /\ store_has(r.store, Head(get_commit(r, h).parents))
         /\ store_has(r.store, h)
         /\ get_commit(r, h).patch
                = diff_trees(store_get(r.store,
                                       Head(get_commit(r, h).parents)),
                             store_get(r.store, h))
         /\ get_commit(r, h).patch # <<>>
                <=> content(store_get(r.store, h), 0)
                        # content(store_get(r.store,
                                            Head(get_commit(r, h).parents)),
                                  0)

\* C29: in every state of the repository, the patch of every commit that
\* has a parent is diff_trees(tree stored under its first parent, tree
\* stored under its hash), and the patch of the initial commit is empty; so
\* the patch is non-empty if and only if the two trees differ.
C29_PatchIsDiff ==
    pc = "repo" => \A h \in DOMAIN repo.commits : patch_is_diff(repo, h)

\* the part of C29 that holds: the record that a call of commit has just
\* made has the patch from the tree of its parent to its own tree
C29_PatchAtCommit ==
    pc = "repo" /\ commit_count(repo) <= MaxCommits =>
        \A c \in Commits :
            \A r2 \in {Repository_commit(repo, c[1], c[2], c[3])} :
                patch_is_diff(r2, head_hash(r2))

\* C30: merge changes nothing unless the merge is clean.  Where it returns
\* a result with a conflict, or nothing (the branch is unknown, or the commit
\* of HEAD, its first parent or one of the three snapshots is missing), the
\* commits, the store, every branch and current_branch are as before.
C30_MergeFrame ==
    pc = "repo" /\ commit_count(repo) <= MaxCommits + 1 =>
        \A name \in CalledNames :
            ~merge_clean(repo, name) =>
                \A r2 \in {Repository_merge(repo, name)} :
                    /\ r2.commits = repo.commits
                    /\ r2.store = repo.store
                    /\ r2.branches = repo.branches
                    /\ r2.current_branch = repo.current_branch

\* C30 witness: a repository in which merge(dev) returns a result with a
\* conflict, merge(x) returns nothing, and a merge commit has been made
C30_Witness ==
    /\ pc = "repo"
    /\ commit_count(repo) <= MaxCommits + 1
    /\ merge_some(repo, StrDev)
    /\ ~is_clean(merge_ret(repo, StrDev))
    /\ ~merge_some(repo, StrX)
    /\ \E h \in DOMAIN repo.commits :
           h # store_hash(AstTree_new, <<>>)
               /\ get_commit(repo, h).author = StrSystem

\* C33: in every state of the repository the hashes of the commit records
\* are the hashes of the snapshots, every branch head has a commit record
\* and a snapshot (head_tree is present), every parent named by a commit
\* record has a commit record, and the parents of a commit record are the
\* parents of its snapshot.
C33_RecordsAndSnapshots ==
    pc = "repo" =>
        /\ DOMAIN repo.commits = DOMAIN repo.store
        /\ \A b \in branch_names(repo) :
               /\ has_commit(repo, repo.branches[b].head)
               /\ store_has(repo.store, repo.branches[b].head)
        /\ has_head_tree(repo)
        /\ \A h \in DOMAIN repo.commits :
               /\ get_commit(repo, h).hash = h
               /\ \A p \in Range(get_commit(repo, h).parents) :
                      has_commit(repo, p)
               /\ store_has(repo.store, h)
               /\ get_commit(repo, h).parents = parents_of(repo.store, h)

\* C33 witness: two branches with different heads, commits by commit and
\* by merge
C33_Witness ==
    /\ pc = "repo"
    /\ branch_names(repo) = {StrMain, StrDev}
    /\ repo.branches[StrMain].head # repo.branches[StrDev].head
    /\ commit_count(repo) >= 4
    /\ \E h \in DOMAIN repo.commits :
           /\ get_commit(repo, h).parents # <<>>
           /\ get_commit(repo, h).author = StrSystem
    /\ \E h \in DOMAIN repo.commits : get_commit(repo, h).author = StrBob

\* C34: in every state of the repository current_branch names a branch
\* that exists (at first "main"), so head_hash never falls back to 0 for
\* want of the branch, and every commit moves the head of a branch.
C34_CurrentBranchExists ==
    pc = "repo" =>
        /\ repo.current_branch \in branch_names(repo)
        /\ head_hash(repo) = repo.branches[repo.current_branch].head
        /\ head_hash(repo) # HashZero
        /\ commit_count(repo) <= MaxCommits =>
               \A c \in Commits :
                   \A r2 \in {Repository_commit(repo, c[1], c[2], c[3])} :
                       r2.branches[r2.current_branch].head
                           = commit_ret(repo, c[1])

\* C34 witness: dev is current after a checkout of a name that is no branch
\* was refused, and has a commit of its own
C34_Witness ==
    /\ pc = "repo"
    /\ repo.current_branch = StrDev
    /\ ~checkout_ret(repo, StrX)
    /\ branch_names(repo) = {StrMain, StrDev}
    /\ get_commit(repo, head_hash(repo)).parents
           = <<repo.branches[StrMain].head>>
    /\ get_commit(repo, head_hash(repo)).author = StrAlice

\* C35: where the commit of HEAD has no parent (the branch is still at the
\* initial commit), merge(other) returns nothing and changes nothing, also
\* where the branch other exists and has commits of its own.
C35_MergeOnInitialCommit ==
    pc = "repo" /\ commit_count(repo) <= MaxCommits + 1
        /\ has_commit(repo, head_hash(repo))
        /\ get_commit(repo, head_hash(repo)).parents = <<>>
        => \A name \in CalledNames :
               /\ ~merge_some(repo, name)
               /\ Repository_merge(repo, name) = repo

\* C35 witness: dev is current and at the initial commit, main has two
\* commits of its own
C35_Witness ==
    /\ pc = "repo"
    /\ repo.current_branch = StrDev
    /\ branch_names(repo) = {StrMain, StrDev}
    /\ get_commit(repo, head_hash(repo)).parents = <<>>
    /\ get_commit(repo, repo.branches[StrMain].head).parents # <<>>
    /\ Head(get_commit(repo, repo.branches[StrMain].head).parents)
           # head_hash(repo)
    /\ commit_count(repo) = 3

RECURSIVE ancestors(_, _, _)
\* the hashes reached from those of hs over at most n parent links of the
\* commit records
ancestors(r, hs, n) ==
    IF n = 0 THEN hs
    ELSE ancestors(r,
                   hs \cup UNION {Range(get_commit(r, h).parents) :
                                      h \in hs \cap DOMAIN r.commits},
                   n - 1)

\* the commits reachable from h through parent links, h included
reachable_from(r, h) == ancestors(r, {h}, commit_count(r))

\* C36: every commit record has exactly one parent, except the initial
\* commit, which has none.  The commit made by a clean merge has the HEAD
\* before the call as its only parent, so the commits of the merged branch
\* that were not reachable from that HEAD are not reachable from the merge
\* commit through parent links.
C36_OneParent ==
    pc = "repo" =>
        /\ \A h \in DOMAIN repo.commits :
               IF h = store_hash(AstTree_new, <<>>)
               THEN get_commit(repo, h).parents = <<>>
               ELSE Len(get_commit(repo, h).parents) = 1
        /\ commit_count(repo) <= MaxCommits + 1 =>
               \A name \in CalledNames :
                   merge_clean(repo, name) =>
                       \A r2 \in {Repository_merge(repo, name)} :
                           /\ get_commit(r2, head_hash(r2)).parents
                                  = <<head_hash(repo)>>
                           /\ (reachable_from(repo, repo.branches[name].head)
                                   \ reachable_from(repo, head_hash(repo)))
                                  \cap reachable_from(r2, head_hash(r2)) = {}

\* the part of C36 that holds: the same, for the clean merges whose commit
\* gets a hash that no commit of the repository has yet
C36_OneParentFreshHash ==
    pc = "repo" =>
        /\ \A h \in DOMAIN repo.commits :
               IF h = store_hash(AstTree_new, <<>>)
               THEN get_commit(repo, h).parents = <<>>
               ELSE Len(get_commit(repo, h).parents) = 1
        /\ commit_count(repo) <= MaxCommits + 1 =>
               \A name \in CalledNames :
                   merge_clean(repo, name) =>
                       \A r2 \in {Repository_merge(repo, name)} :
                           /\ get_commit(r2, head_hash(r2)).parents
                                  = <<head_hash(repo)>>
                           /\ ~has_commit(repo, head_hash(r2)) =>
                                  (reachable_from(repo,
                                                  repo.branches[name].head)
                                       \ reachable_from(repo,
                                                        head_hash(repo)))
                                      \cap reachable_from(r2, head_hash(r2))
                                      = {}

RECURSIVE preorder(_, _)
\* the (kind byte, label bytes) pairs of the subtree of id, in pre-order
preorder(t, id) ==
    <<<<KindByte(get_node(t, id).kind), get_node(t, id).label>>>>
    \o Concat([i \in 1..Len(get_node(t, id).children) |->
                  preorder(t, get_node(t, id).children[i])])

\* C37: subtree_hash(id) is a function of the pre-order sequence of (kind
\* byte, label bytes) of the subtree alone: two subtrees with the same
\* sequence have the same hash, whatever their values, ids and nesting, and
\* two trees with the same sequence get the same commit hash under the same
\* parents.
C37_HashOfPreorder ==
    /\ \A i \in DOMAIN old_tree.index, j \in DOMAIN new_tree.index :
           preorder(old_tree, i) = preorder(new_tree, j)
               => subtree_hash(old_tree, i) = subtree_hash(new_tree, j)
    /\ preorder(old_tree, 0) = preorder(new_tree, 0)
           => \A parents \in {<<>>, <<AbsentHash>>,
                              <<AbsentHash, FnvOffsetBasis>>} :
                  store_hash(old_tree, parents) = store_hash(new_tree, parents)

\* C37 witness: root -> [a, b] and root -> a -> b, a with a value in one of
\* them, have one hash
C37_Witness ==
    /\ pc = "pair"
    /\ get_node(old_tree, 0).children = <<1, 2>>
    /\ get_node(new_tree, 0).children = <<1>>
    /\ has_node(new_tree, 2)
    /\ get_node(new_tree, 1).children = <<2>>
    /\ get_node(old_tree, 1).value = Int1
    /\ get_node(new_tree, 1).value = ValNone
    /\ get_node(old_tree, 2).label = LabelB
    /\ preorder(old_tree, 0) = preorder(new_tree, 0)
    /\ subtree_hash(old_tree, 0) = subtree_hash(new_tree, 0)

\* no node of the tree holds a Float(NaN)
NoNaNTree(t) ==
    \A i \in 1..Len(t.nodes) :
        ~(t.nodes[i].value.tag = "Float" /\ IsNaN(t.nodes[i].value.w))

\* Repository.diff(h, h) is present and empty for every hash h stored in r
diff_zero(r) ==
    \A h \in DOMAIN r.store :
        diff_some(r, h, h) /\ Repository_diff(r, h, h) = <<>>

\* C20 as stated: for every tree T, diff_trees(T, T) is the empty script, and
\* Repository.diff(h, h) is empty for every stored hash h; the repository is
\* a new one in which T was committed.
C20_DiffZeroAnyTree ==
    pc = "diffed" /\ old_tree = new_tree =>
        /\ patch = <<>>
        /\ diff_zero(Repository_commit(Repository_new, old_tree, StrM1,
                                       StrAlice))

\* C20 amended: the same for every tree T that holds no Float(NaN).
C20_DiffZeroNoNaN ==
    pc = "diffed" /\ old_tree = new_tree /\ NoNaNTree(old_tree) =>
        /\ patch = <<>>
        /\ diff_zero(Repository_commit(Repository_new, old_tree, StrM1,
                                       StrAlice))

\* C20 witness: a tree of three nodes, one below the other, the first with
\* the value Int(1), diffed against itself
C20_Witness ==
    /\ pc = "diffed"
    /\ old_tree = new_tree
    /\ NoNaNTree(old_tree)
    /\ node_count(old_tree) = 3
    /\ has_parent(old_tree, 2)
    /\ parent_of(old_tree, 2) = 1
    /\ get_node(old_tree, 1).value = Int1
    /\ patch = <<>>

(***************************************************************************)
(* SpecStore: a SnapshotStore driven by store alone, every call recorded.  *)
(* The parents are any hashes: those stored, one never stored, and one     *)
(* computed from the tree and the other.                                   *)
(***************************************************************************)
\* root -> [a] with the value Int(1) on a: the subtree hash of TreeA
TreeA1 == add_node_with_value(AstTree_new, "Primitive", LabelA, Int1, 0)

StoreTrees == {TreeA, TreeA1}

\* the u64 p for which folding <<p>> into the hash of t gives what folding
\* <<q, q>> gives: p = h ^ ((h ^ q) * 0x100000001b3) ^ q
FoldedPair(t, q) ==
    xor_u64(xor_u64(subtree_hash(t, t.root_id),
                    wrapping_mul_prime(
                        xor_u64(subtree_hash(t, t.root_id), q))),
            q)

\* one call of store, as recorded
StoreCall(snapshots, t, parents) ==
    [tree |-> t,
     parents |-> parents,
     hash |-> store_hash(t, parents),
     len_before |-> store_len(snapshots),
     len_after |-> store_len(store_insert(snapshots, t, parents))]

InitStore ==
    /\ IdleTree
    /\ IdleApply
    /\ IdleDiff
    /\ IdleMerge
    /\ IdleCodec
    /\ IdleGc
    /\ IdleRepo
    /\ pc = "calls"

StoreAny ==
    \E t \in StoreTrees :
        \E parents \in SeqsUpTo(DOMAIN store
                                    \cup {AbsentHash,
                                          FoldedPair(t, AbsentHash)},
                                MaxParents) :
            /\ pc = "calls"
            /\ Len(store_calls) < MaxStores
            /\ store' = store_insert(store, t, parents)
            /\ store_calls' = Append(store_calls, StoreCall(store, t, parents))
            /\ UNCHANGED <<marking, gc_first, stored, store_before, roots,
                           gc_result, treeVars, applyVars, diffVars, mergeVars,
                           codecVars, repoVars, pc>>

NextStore == StoreAny

SpecStore == InitStore /\ [][NextStore]_vars

\* the last call that returned the hash of call i
last_call(i) ==
    CHOOSE k \in i..Len(store_calls) :
        /\ store_calls[k].hash = store_calls[i].hash
        /\ \A n \in (k + 1)..Len(store_calls) :
               store_calls[n].hash # store_calls[i].hash

\* C25: store is content-addressed and the last write wins.  A call with
\* the (tree, parents) pair of an earlier call returns the hash that call
\* returned and leaves len as it is; and for every hash returned, get(hash)
\* and parents(hash) are the tree and the parents of the last call that
\* returned it.
C25_LastWriteWins ==
    /\ \A j \in 1..Len(store_calls) :
           \A i \in 1..(j - 1) :
               /\ store_calls[i].tree = store_calls[j].tree
               /\ store_calls[i].parents = store_calls[j].parents
               => /\ store_calls[j].hash = store_calls[i].hash
                  /\ store_calls[j].len_after = store_calls[j].len_before
    /\ \A i \in 1..Len(store_calls) :
           /\ store_has(store, store_calls[i].hash)
           /\ store_get(store, store_calls[i].hash)
                  = store_calls[last_call(i)].tree
           /\ parents_of(store, store_calls[i].hash)
                  = store_calls[last_call(i)].parents

\* C25 witness: TreeA and TreeA1 were stored on the same parents and got the
\* same hash, and TreeA1 was stored once more
C25_Witness ==
    /\ Len(store_calls) = 3
    /\ store_calls[1].tree = TreeA
    /\ store_calls[2].tree = TreeA1
    /\ store_calls[3].tree = TreeA1
    /\ store_calls[1].parents # <<>>
    /\ store_calls[2].parents = store_calls[1].parents
    /\ store_calls[3].parents = store_calls[1].parents
    /\ store_calls[2].hash = store_calls[1].hash
    /\ store_len(store) = 1
    /\ store_get(store, store_calls[1].hash) = TreeA1

\* the positions at which two lists of one length differ
differing(p1, p2) == {i \in 1..Len(p1) : p1[i] # p2[i]}

\* C26 as stated: two calls of store with the same tree and different
\* parent lists return different hashes.
C26_DifferentParents ==
    \A i, j \in 1..Len(store_calls) :
        /\ store_calls[i].tree = store_calls[j].tree
        /\ store_calls[i].parents # store_calls[j].parents
        => store_calls[i].hash # store_calls[j].hash

\* C26 amended: two calls of store with the same tree and parent lists of
\* one length that differ at exactly one position return different hashes.
C26_OneParentDiffers ==
    \A i, j \in 1..Len(store_calls) :
        /\ store_calls[i].tree = store_calls[j].tree
        /\ Len(store_calls[i].parents) = Len(store_calls[j].parents)
        /\ Cardinality(differing(store_calls[i].parents,
                                 store_calls[j].parents)) = 1
        => store_calls[i].hash # store_calls[j].hash

\* C26 witness: TreeA stored on a hash, then on that hash twice, then on
\* that hash and the one the first call returned
C26_Witness ==
    /\ Len(store_calls) = 3
    /\ \A i \in 1..3 : store_calls[i].tree = TreeA
    /\ store_calls[1].parents = <<AbsentHash>>
    /\ store_calls[2].parents = <<AbsentHash, AbsentHash>>
    /\ store_calls[3].parents = <<AbsentHash, store_calls[1].hash>>
    /\ store_len(store) = 3

\* the == of NodeValue relates Float(0.0) and Float(-0.0) and nothing else
\* that differs; a value stands for its class as Float(0.0) does for both
same_value(v) == IF v = FloatNegZero THEN FloatZero ELSE v

\* an op with every value it carries replaced by the one standing for it:
\* two ops without NaN are == exactly when these agree
same_op(op) ==
    CASE op.op = "Insert" -> [op EXCEPT !.value = same_value(@)]
      [] op.op = "Update" -> [op EXCEPT !.old_value = same_value(@),
                                        !.new_value = same_value(@)]
      [] OTHER -> op

\* two scripts hold the same ops as often, in whatever order, an op counted
\* with the ops it is == to
permutation(xs, ys) ==
    /\ Len(xs) = Len(ys)
    /\ \A i \in 1..Len(xs) :
           Cardinality({j \in 1..Len(xs) : same_op(xs[j]) = same_op(xs[i])})
               = Cardinality({j \in 1..Len(ys) :
                                  same_op(ys[j]) = same_op(xs[i])})

\* the conflicts of r and of s name the same nodes, each once, and hold
\* each other's sides
swapped(r, s) ==
    /\ {r.conflicts[k].node_id : k \in 1..Len(r.conflicts)}
           = {s.conflicts[k].node_id : k \in 1..Len(s.conflicts)}
    /\ Len(r.conflicts) = Len(s.conflicts)
    /\ \A k \in 1..Len(r.conflicts) : \A l \in 1..Len(s.conflicts) :
           r.conflicts[k].node_id = s.conflicts[l].node_id =>
               /\ r.conflicts[k].ops_a = s.conflicts[l].ops_b
               /\ r.conflicts[k].ops_b = s.conflicts[l].ops_a

\* C39: merge_patches is symmetric up to order: merge(A, B) and merge(B, A)
\* report conflicts on the same set of node ids with ops_a and ops_b
\* swapped, and their merged_ops are permutations of each other.  Ops are
\* told apart as the == of DiffOp tells them apart: of an Update to
\* Float(0.0) on one side and to Float(-0.0) on the other, merged_ops holds
\* the one of the first argument.
C39_MergeSymmetric ==
    pc = "merged" =>
        \A s \in {merge_patches(patch_b, patch_a)} :
            /\ swapped(merge_result, s)
            /\ permutation(merge_result.merged_ops, s.merged_ops)

\* C39 witness: two different scripts that contest one node and each edit
\* another node alone; the two merges list the uncontested ops in opposite
\* orders
C39_Witness ==
    /\ pc = "merged"
    /\ Len(merge_result.conflicts) = 1
    /\ Len(merge_result.merged_ops) = 2
    /\ merge_result.merged_ops[1] # merge_result.merged_ops[2]
    /\ merge_patches(patch_b, patch_a).merged_ops
           = <<merge_result.merged_ops[2], merge_result.merged_ops[1]>>
    /\ merge_patches(patch_b, patch_a).conflicts[1].ops_a
           = merge_result.conflicts[1].ops_b
    /\ merge_result.conflicts[1].ops_a # merge_result.conflicts[1].ops_b

(***************************************************************************)
(* SpecLevels: two trees of up to LevelMaxId nodes below the root are      *)
(* built by add_node_with_value, the root of the new one is relabelled or  *)
(* given a value through apply_patch, and diff_trees(old_tree, new_tree)   *)
(* is computed.                                                            *)
(***************************************************************************)
\* non-root nodes of a tree of SpecLevels
LevelMaxId == 3

\* the (kind, label, value) triples of its nodes: two keys, and two values
\* under one key
LevelShapes ==
    {<<"Primitive", LabelA, ValNone>>, <<"Primitive", LabelA, Int1>>,
     <<"Primitive", LabelB, ValNone>>}

\* the edits of the root: a Relabel and an Update
RootEdits ==
    {OpRelabel(0, RootLabel, LabelA), OpUpdate(0, ValNone, Int1)}

GrowOldLevel ==
    \E shape \in LevelShapes, parent_id \in 0..LevelMaxId :
        /\ pc = "pair"
        /\ old_tree.next_id <= LevelMaxId
        /\ has_node(old_tree, parent_id)
        /\ old_tree' = add_node_with_value(old_tree, shape[1], shape[2],
                                           shape[3], parent_id)
        /\ UNCHANGED <<new_tree, other_tree, treeVars, applyVars, mergeVars,
                       codecVars, gcVars, repoVars, pc>>

GrowNewLevel ==
    \E shape \in LevelShapes, parent_id \in 0..LevelMaxId :
        /\ pc = "pair"
        /\ new_tree.next_id <= LevelMaxId
        /\ has_node(new_tree, parent_id)
        /\ new_tree' = add_node_with_value(new_tree, shape[1], shape[2],
                                           shape[3], parent_id)
        /\ UNCHANGED <<old_tree, other_tree, treeVars, applyVars, mergeVars,
                       codecVars, gcVars, repoVars, pc>>

EditRoot ==
    \E op \in RootEdits :
        /\ pc = "pair"
        /\ apply_patch(new_tree, <<op>>) # new_tree
        /\ new_tree' = apply_patch(new_tree, <<op>>)
        /\ UNCHANGED <<old_tree, other_tree, treeVars, applyVars, mergeVars,
                       codecVars, gcVars, repoVars, pc>>

NextLevels == GrowOldLevel \/ GrowNewLevel \/ EditRoot \/ Diff

SpecLevels == InitDiff /\ [][NextLevels]_vars

\* the children of node id
children_of(t, id) == get_node(t, id).children

\* where id stands among the children of its parent, counted from 1
child_position(t, id) ==
    CHOOSE i \in 1..Len(children_of(t, parent_of(t, id))) :
        children_of(t, parent_of(t, id))[i] = id

\* how many of the first n of the children have the key
key_count(t, children, key, n) ==
    Cardinality({j \in 1..n : child_key(t, children[j]) = key})

\* the children of p with the key, of all of them
with_key(t, p, key) ==
    key_count(t, children_of(t, p), key, Len(children_of(t, p)))

\* child id is the i-th child of its key under its parent
key_rank(t, id) ==
    key_count(t, children_of(t, parent_of(t, id)), child_key(t, id),
              child_position(t, id))

RECURSIVE paired(_, _, _, _)
\* (o, n) is a matched pair: the two roots, or the i-th old child and the
\* i-th new child of one key under a matched pair
paired(old, new, o, n) ==
    \/ o = old.root_id /\ n = new.root_id
    \/ /\ has_parent(old, o)
       /\ has_parent(new, n)
       /\ child_key(old, o) = child_key(new, n)
       /\ key_rank(old, o) = key_rank(new, n)
       /\ paired(old, new, parent_of(old, o), parent_of(new, n))

\* old node o has a partner in new
has_partner(old, new, o) ==
    \E n \in DOMAIN new.index : paired(old, new, o, n)

\* old child c of a matched parent is beyond the new count of its key
beyond_new(old, new, c) ==
    /\ has_parent(old, c)
    /\ \E n \in DOMAIN new.index :
           /\ paired(old, new, parent_of(old, c), n)
           /\ key_rank(old, c) > with_key(new, n, child_key(old, c))

\* new child c of the partner of o is beyond the old count of its key
beyond_old(old, new, o, c) ==
    /\ has_parent(new, c)
    /\ paired(old, new, o, parent_of(new, c))
    /\ key_rank(new, c) > with_key(old, o, child_key(new, c))

\* the Insert that stands for new child c under old parent o
insert_of(new, o, c) ==
    OpInsert(o, child_position(new, c) - 1, get_node(new, c).kind,
             get_node(new, c).label, get_node(new, c).value)

\* the level an op belongs to: the old node whose pair emitted it
level_of(old, op) ==
    CASE op.op = "Insert" -> op.parent_id
      [] op.op = "Delete" -> parent_of(old, op.node_id)
      [] OTHER -> op.node_id

\* the rank of an op within its level
stage_of(op) ==
    CASE op.op = "Relabel" -> 0
      [] op.op = "Update" -> 1
      [] op.op = "Delete" -> 3
      [] op.op = "Insert" -> 4

RECURSIVE below(_, _, _)
\* d is a proper descendant of o
below(t, d, o) ==
    /\ has_parent(t, d)
    /\ (parent_of(t, d) = o \/ below(t, parent_of(t, d), o))

\* the ops of the script are those of the matched pairs and of the
\* children without a partner, each once
ops_by_key(old, new, ops) ==
    /\ \A o \in DOMAIN old.index : \A n \in DOMAIN new.index :
           paired(old, new, o, n) =>
               /\ Count(ops, OpRelabel(o, get_node(old, o).label,
                                       get_node(new, n).label))
                      = IF get_node(old, o).label # get_node(new, n).label
                        THEN 1 ELSE 0
               /\ Count(ops, OpUpdate(o, get_node(old, o).value,
                                      get_node(new, n).value))
                      = IF ValueEq(get_node(old, o).value,
                                   get_node(new, n).value)
                        THEN 0 ELSE 1
               /\ \A c \in Range(children_of(new, n)) :
                      Count(ops, insert_of(new, o, c))
                          = IF beyond_old(old, new, o, c) THEN 1 ELSE 0
    /\ \A c \in DOMAIN old.index :
           Count(ops, OpDelete(c)) = IF beyond_new(old, new, c) THEN 1 ELSE 0
    /\ \A i \in 1..Len(ops) :
           /\ ops[i].op # "Move"
           /\ ops[i].op = "Delete" => has_node(old, ops[i].node_id)
           /\ ops[i].op \in {"Relabel", "Update"} =>
                  \E n \in DOMAIN new.index :
                      /\ paired(old, new, ops[i].node_id, n)
                      /\ ops[i] \in
                             {OpRelabel(ops[i].node_id,
                                        get_node(old, ops[i].node_id).label,
                                        get_node(new, n).label),
                              OpUpdate(ops[i].node_id,
                                       get_node(old, ops[i].node_id).value,
                                       get_node(new, n).value)}
           /\ ops[i].op = "Insert" =>
                  \E c \in DOMAIN new.index :
                      /\ beyond_old(old, new, ops[i].parent_id, c)
                      /\ ops[i] = insert_of(new, ops[i].parent_id, c)

\* within a level Relabel, Update, Deletes, Inserts come in this order, and
\* the ops of the levels below come after the Update and before the Deletes
ops_by_level(old, ops) ==
    \A i, j \in 1..Len(ops) :
        /\ (level_of(old, ops[i]) = level_of(old, ops[j])
                /\ stage_of(ops[i]) < stage_of(ops[j])) => i < j
        /\ below(old, level_of(old, ops[j]), level_of(old, ops[i])) =>
               IF stage_of(ops[i]) <= 1 THEN i < j ELSE j < i

\* C31: diff matches the children of a matched pair by key (kind, label),
\* positionally within a key: the i-th old child with key k is paired with
\* the i-th new child with key k; each old child beyond the new count of its
\* key yields exactly one Delete of that child id; each new child beyond the
\* old count of its key yields exactly one Insert whose parent_id is the old
\* parent's id and whose index is the child's position in the new parent's
\* children; the ops of a node (Relabel, then Update) come before the ops of
\* its matched children, then the Deletes, then the Inserts of that level.
C31_MatchedByKey ==
    pc = "diffed" =>
        /\ ops_by_key(old_tree, new_tree, patch)
        /\ ops_by_level(old_tree, patch)

\* C31 witness: the root is relabelled and updated, its second child of key
\* (Primitive, a) is updated, one child is deleted and one inserted: five
\* ops, in the order Relabel, Update, Update, Delete, Insert
C31_Witness ==
    /\ pc = "diffed"
    /\ Len(patch) = 5
    /\ patch[1].op = "Relabel"
    /\ patch[2].op = "Update"
    /\ patch[2].node_id = 0
    /\ patch[3].op = "Update"
    /\ has_parent(old_tree, patch[3].node_id)
    /\ key_rank(old_tree, patch[3].node_id) = 2
    /\ patch[4].op = "Delete"
    /\ patch[5].op = "Insert"
    /\ patch[5].index > 0

(***************************************************************************)
(* SpecPatched: two trees are built by add_node_with_value with existing   *)
(* parents and remove_subtree of non-root ids, then                        *)
(* diff_trees(old_tree, new_tree) is computed and applied to a clone of    *)
(* old_tree.                                                               *)
(***************************************************************************)
PruneOld ==
    \E id \in 1..LevelMaxId :
        /\ pc = "pair"
        /\ has_node(old_tree, id)
        /\ old_tree' = remove_subtree(old_tree, id)
        /\ UNCHANGED <<new_tree, other_tree, treeVars, applyVars, mergeVars,
                       codecVars, gcVars, repoVars, pc>>

PruneNew ==
    \E id \in 1..LevelMaxId :
        /\ pc = "pair"
        /\ has_node(new_tree, id)
        /\ new_tree' = remove_subtree(new_tree, id)
        /\ UNCHANGED <<old_tree, other_tree, treeVars, applyVars, mergeVars,
                       codecVars, gcVars, repoVars, pc>>

NextPatched ==
    GrowOldLevel \/ GrowNewLevel \/ PruneOld \/ PruneNew \/ Diff \/ Apply

SpecPatched == InitDiff /\ [][NextPatched]_vars

\* I1: exactly one node has id 0 and kind Root
I1(t) ==
    /\ has_node(t, 0)
    /\ get_node(t, 0).kind = "Root"
    /\ Cardinality({i \in 1..Len(t.nodes) :
                       t.nodes[i].id = 0 /\ t.nodes[i].kind = "Root"}) = 1

\* I5: next_id exceeds every live id
I5(t) == \A i \in 1..Len(t.nodes) : t.nodes[i].id < t.next_id

\* no id is listed as a child by two nodes
one_parent(t) ==
    \A i, j \in 1..Len(t.nodes) :
        i # j => Range(t.nodes[i].children) \cap Range(t.nodes[j].children)
                     = {}

\* C32: for all well-formed trees T1 and T2 (built only by add_node with
\* existing parents and remove_subtree of non-root ids), the tree obtained
\* by apply_patch(T1, diff_trees(T1, T2)) satisfies I1-I5: root present,
\* indices and children lists agree, every non-root node has exactly one
\* parent that lists it once, no cycle, next_id above every live id; the
\* nodes it adds have ids that T1 never issued.
C32_PatchedWellFormed ==
    pc = "applied" =>
        /\ I1(tree)
        /\ I2(tree)
        /\ I3(tree)
        /\ one_parent(tree)
        /\ I4(tree)
        /\ I5(tree)
        /\ tree.next_id >= before.next_id
        /\ \A id \in DOMAIN tree.index :
               id < before.next_id => has_node(before, id)

\* C32 witness: T1 lost a node before the diff, the script deletes a node
\* that has a child and inserts a node, which gets an id above every id T1
\* issued
C32_Witness ==
    /\ pc = "applied"
    /\ node_count(before) < before.next_id
    /\ \E i \in 1..Len(patch) :
           /\ patch[i].op = "Delete"
           /\ get_node(before, patch[i].node_id).children # <<>>
    /\ \E i \in 1..Len(patch) : patch[i].op = "Insert"
    /\ has_node(tree, before.next_id)
    /\ tree.next_id > before.next_id

====
